---- MODULE Spec2Model ----
(***************************************************************************)
(* actual-budget-mcp: the tool layer (tools.ts) over ActualBudgetClient    *)
(* (actual-client.ts) over the @actual-app/api backend.                    *)
(*                                                                         *)
(* Strings are sequences of one-character strings, so toLowerCase() is a   *)
(* character map.  An optional value is a sequence of length 0 (undefined) *)
(* or 1 (the value).                                                       *)
(***************************************************************************)
EXTENDS Integers, Sequences, FiniteSets, TLC

VARIABLES
    phase,          \* "boot" | "serving" | "exited": main() before/after client.init()
    initialized,    \* ActualBudgetClient.initialized
    clock,          \* the instant of the call: [utc |-> date, local |-> date]
    accounts,       \* backend: api.getAccounts()
    categories,     \* backend: api.getCategories()
    payees,         \* backend: api.getPayees()
    transactions,   \* backend: api.getTransactions(), by account id
    budget,         \* backend: api.getBudgetMonth()
    schedules,      \* backend: api.getSchedules()
    ledger,         \* backend: the writes applied so far, in order
    tool,           \* the tool (or client method) being invoked
    args,           \* its arguments as received
    pc,             \* the client method the handler awaits, or "idle" | "done"
    cpc,            \* position inside that client method
    carg,           \* the argument the handler passed to that client method
    loc,            \* the handler's local variables
    trace,          \* backend calls issued by this invocation, in order
    result,         \* what the caller gets: <<>> while running
    ledgerAtStart,  \* the ledger when this invocation started
    rColl,          \* resolver check: the collection
    rToken,         \* resolver check: the token
    rFound,         \* resolver check: the result of find()
    conv,           \* currency check: the value, the conversion applied and its result
    ops,            \* concurrent client operations: the position of each
    calls,          \* concurrent client operations: the backend calls issued, in order
    fetches,        \* get_accounts: the state of each balance fetch of Promise.all
    http            \* the HTTP endpoint: the configured token, the request, the response

vars == <<phase, initialized, clock, accounts, categories, payees, transactions,
          budget, schedules, ledger,
          tool, args, pc, cpc, carg, loc, trace, result, ledgerAtStart,
          rColl, rToken, rFound, conv, ops, calls, fetches, http>>

serverVars == <<phase, initialized, clock, accounts, categories, payees, transactions,
                budget, schedules, ledger,
                tool, args, pc, cpc, carg, loc, trace, result, ledgerAtStart>>

resolverVars == <<rColl, rToken, rFound>>

\* what the server's steps leave alone
otherVars == <<resolverVars, conv, ops, calls, fetches, http>>

-----------------------------------------------------------------------------
(* Bounds *)

\* longest collection of the resolver check
MaxRecords == 2
\* invocations start while fewer than this many writes are applied
MaxWrites == 1
\* most transactions of one account in the search and summary checks
MaxTransactions == 2
\* most categories of a group, and most groups, in the budget month check
MaxCategories == 2
\* most schedules in the schedule listing check
MaxSchedules == 2
\* the largest magnitude of a converted value
MaxAmount == 30
\* the number of client operations in flight together
MaxOps == 2

-----------------------------------------------------------------------------
(* Values *)

None == << >>
Some(v) == <<v>>
IsSome(o) == Len(o) = 1

\* String.prototype.toLowerCase on the alphabet in use
LowerChar(c) ==
    CASE c = "A" -> "a"
      [] c = "B" -> "b"
      [] c = "C" -> "c"
      [] c = "K" -> "k"
      [] c = "S" -> "s"
      [] c = "V" -> "v"
      [] OTHER -> c

toLowerCase(s) == [i \in 1..Len(s) |-> LowerChar(s[i])]

\* a JS string is truthy unless empty; an optional string is truthy if present and non-empty
TruthyStr(o) == IsSome(o) /\ o[1] # << >>

\* Array.prototype.find: the first element satisfying P, else undefined
FirstIndex(S) == CHOOSE i \in S : \A j \in S : i <= j

\* mutant: compares names case-sensitively
MatchesIdOrNameCaseSensitive(r, token) ==
    r.id = token \/ r.name = token

\* (a) => a.id === token || a.name.toLowerCase() === token.toLowerCase()
MatchesIdOrName(r, token) ==
    r.id = token \/ toLowerCase(r.name) = toLowerCase(token)

\* collection.find(MatchesIdOrName)
FindByIdOrName(coll, token) ==
    LET S == {i \in 1..Len(coll) : MatchesIdOrName(coll[i], token)}
    IN  IF S = {} THEN None ELSE Some(coll[FirstIndex(S)])

\* mutant: compares payee names case-sensitively
FindByNameCaseSensitive(coll, name) ==
    LET S == {i \in 1..Len(coll) : coll[i].name = name}
    IN  IF S = {} THEN None ELSE Some(coll[FirstIndex(S)])

\* (p) => p.name.toLowerCase() === payee.toLowerCase()
FindByName(coll, name) ==
    LET S == {i \in 1..Len(coll) : toLowerCase(coll[i].name) = toLowerCase(name)}
    IN  IF S = {} THEN None ELSE Some(coll[FirstIndex(S)])

\* String.prototype.includes
Includes(s, sub) ==
    \E i \in 0..(Len(s) - Len(sub)) : SubSeq(s, i + 1, i + Len(sub)) = sub

\* Array.prototype.slice(0, end) for an integer end
Slice(s, end) ==
    LET k == IF end < 0 THEN (IF Len(s) + end < 0 THEN 0 ELSE Len(s) + end)
             ELSE (IF end > Len(s) THEN Len(s) ELSE end)
    IN  SubSeq(s, 1, k)

\* the values held by an array
Elements(s) == {s[i] : i \in DOMAIN s}

\* Array.prototype.sort with a comparator, given as the function compare on pairs of
\* elements of s: the sort is stable, so the element at i comes after the elements
\* that compare before it and the equal ones that precede it
Sort(s, compare) ==
    LET rank(i) == Cardinality({k \in 1..Len(s) :
                        \/ compare[<<s[k], s[i]>>] < 0
                        \/ compare[<<s[k], s[i]>>] = 0 /\ k < i})
    IN  [n \in 1..Len(s) |-> s[CHOOSE i \in 1..Len(s) : rank(i) = n - 1]]

-----------------------------------------------------------------------------
(* The resolver on its own: every short collection, every token *)

ResolverIds == {<<"x">>, <<"a", "1">>, <<"b">>}
ResolverNames == {<<"A", "1">>, <<"S", "v">>, <<"s", "v">>}
ResolverTokens == ResolverIds \cup ResolverNames \cup {<<"a", "1", "x">>, <<"S", "V">>}

ResolverRecords == [id : ResolverIds, name : ResolverNames]

\* ids are unique in the ledger; names are not
UniqueIds(coll) == \A i, j \in 1..Len(coll) : coll[i].id = coll[j].id => i = j

ResolverCollections ==
    {c \in UNION {[1..n -> ResolverRecords] : n \in 0..MaxRecords} : UniqueIds(c)}

-----------------------------------------------------------------------------
(* Currency and dates.  A decimal amount is held in thousandths, a ledger  *)
(* amount in minor units (hundredths).                                     *)

\* mutant: Math.round(value) * 100
toAmountWholeUnits(value) == ((value + 500) \div 1000) * 100

\* Math.round(value * 100): round half up
toAmount(value) == (value + 5) \div 10

\* value / 100
fromAmount(value) == value * 10

\* mutant: the amount without Math.abs
AbsSigned(n) == n

\* Math.abs
Abs(n) == IF n < 0 THEN -n ELSE n

\* a date string "YYYY-MM-DD" is <<"YYYY", "MM", "DD">>
\* date.toISOString().split('T')[0]: the UTC calendar date
formatDate(date) == date.utc

\* date.toISOString().slice(0, 7): the UTC month
formatMonth(date) == SubSeq(date.utc, 1, 2)

getCurrentMonth == formatMonth(clock)

\* the number written by a run of digits of a date string
DigitsValue(s) ==
    CASE s = "2023" -> 2023 [] s = "2024" -> 2024
      [] s = "01" -> 1 [] s = "02" -> 2 [] s = "03" -> 3 [] s = "05" -> 5
      [] s = "10" -> 10 [] s = "12" -> 12 [] s = "15" -> 15 [] s = "29" -> 29
      [] s = "31" -> 31

\* a.localeCompare(b) on two "YYYY-MM-DD" strings: fixed-width digits compare as numbers
localeCompare(a, b) ==
    LET differ == {i \in 1..3 : a[i] # b[i]}
        first == CHOOSE i \in differ : \A j \in differ : i <= j
    IN  IF differ = {} THEN 0
        ELSE IF DigitsValue(a[first]) < DigitsValue(b[first]) THEN -1 ELSE 1

getToday == formatDate(clock)

\* new Date(Date.now() - 30 * 24 * 60 * 60 * 1000)
ThirtyDaysAgo == [utc |-> clock.utcMinus30]

\* new Date(Date.now() - 90 * 24 * 60 * 60 * 1000)
NinetyDaysAgo == [utc |-> clock.utcMinus90]

\* const d = new Date(); d.setDate(1): the same time of day on day 1 of the local month
FirstOfLocalMonth == [utc |-> clock.utcOfLocalFirst]

\* instants: the UTC date, the host's local date, the UTC dates 30 and 90 days before,
\* and the UTC date of the instant moved to day 1 of the local month
Clocks ==
    { [utc |-> <<"2024", "03", "01">>, local |-> <<"2024", "03", "01">>,
       utcMinus30 |-> <<"2024", "01", "31">>, utcMinus90 |-> <<"2023", "12", "02">>,
       utcOfLocalFirst |-> <<"2024", "03", "01">>],
      [utc |-> <<"2024", "03", "01">>, local |-> <<"2024", "02", "29">>,
       utcMinus30 |-> <<"2024", "01", "31">>, utcMinus90 |-> <<"2023", "12", "02">>,
       utcOfLocalFirst |-> <<"2024", "02", "02">>] }

-----------------------------------------------------------------------------
(* The ledger held by the backend *)

Acc1 == [id |-> <<"a", "1">>, name |-> <<"C", "k">>, closed |-> FALSE, offbudget |-> FALSE]
Acc2 == [id |-> <<"a", "2">>, name |-> <<"S", "v">>, closed |-> FALSE, offbudget |-> FALSE]
Cat1 == [id |-> <<"c", "1">>, name |-> <<"F", "d">>, group_id |-> <<"g", "1">>]
Cat2 == [id |-> <<"c", "2">>, name |-> <<"G", "s">>, group_id |-> <<"g", "1">>]
\* api.getCategoryGroups(): the groups are not changed by any tool
CategoryGroups ==
    <<[id |-> <<"g", "1">>, name |-> <<"U", "s">>, is_income |-> FALSE],
      [id |-> <<"g", "2">>, name |-> <<"I", "n">>, is_income |-> TRUE]>>
Pay1 == [id |-> <<"p", "1">>, name |-> <<"C", "o">>]
Txn1 == [id |-> <<"t", "1">>, date |-> <<"2024", "02", "10">>, amount |-> -3500,
         payee |-> Some(<<"p", "1">>), category |-> Some(<<"c", "1">>),
         notes |-> Some(<<"n">>), cleared |-> Some(TRUE)]

\* the transactions of each account
Transactions1 == (Acc1.id :> <<Txn1>>) @@ (Acc2.id :> << >>)

\* a budget month as the backend reports it; a group's own spent is signed
Budget1 ==
    [month |-> <<"2024", "03">>, totalBudgeted |-> -90000, toBudget |-> 12000,
     categoryGroups |->
        <<[name |-> <<"U", "s">>, budgeted |-> 90000, spent |-> -80000, balance |-> 10000,
           categories |->
              <<[name |-> <<"F", "d">>, budgeted |-> 50000, spent |-> -50000, balance |-> 0],
                [name |-> <<"G", "s">>, budgeted |-> 40000, spent |-> -30000,
                 balance |-> 10000]>>]>>]

\* a schedule: `amount` is _amount (a number, a range or nothing) and `date` is _date
\* (nothing, a date string, or a descriptor whose frequency and interval may be missing)
Sched1 == [id |-> <<"s", "1">>, name |-> Some(<<"R", "t">>), next_date |-> Some(<<"2024", "03", "05">>),
           completed |-> Some(FALSE), payee |-> Some(<<"p", "1">>), account |-> Some(<<"a", "1">>),
           amount |-> [kind |-> "number", num1 |-> -120000],
           date |-> [kind |-> "object", frequency |-> Some(<<"monthly">>), interval |-> Some(1)]]

\* api.getAccountBalance
BalanceOf(accountId) ==
    IF accountId = Acc1.id THEN 150075 ELSE IF accountId = <<"a", "3">> THEN 995 ELSE -2050

\* api.getTransactions
TransactionsOf(accountId) ==
    IF accountId \in DOMAIN transactions THEN transactions[accountId] ELSE << >>

Digit(n) == CASE n = 0 -> "0" [] n = 1 -> "1" [] n = 2 -> "2" [] n = 3 -> "3"
              [] n = 4 -> "4" [] n = 5 -> "5" [] n = 6 -> "6" [] n = 7 -> "7"
              [] n = 8 -> "8" [] OTHER -> "9"

\* ids the backend hands out
NewPayeeId == <<"p", "n", Digit(Len(payees) + 1)>>
NewScheduleId == <<"s", "n", Digit(Len(ledger) + 1)>>
NewTransactionId == <<"t", "n", Digit(Len(ledger) + 1)>>

-----------------------------------------------------------------------------
(* Input contracts (the inputSchema of each registered tool).  A field of  *)
(* a request is None (absent), Some(v), or WrongType (a value of another   *)
(* JS type than the contract declares).                                    *)

WrongType == <<"wrong", "type">>

Tools == {"get_account_balance", "add_transaction", "get_transactions",
          "update_transaction", "delete_transaction", "set_budget_amount",
          "create_schedule", "delete_schedule", "sync_budget",
          "search_transactions", "get_spending_summary", "get_budget_month",
          "get_schedules", "get_accounts", "get_categories", "get_payees"}

\* public client methods no tool calls: a caller of the class calls them directly
DirectMethods == {"importTransactions", "updateSchedule"}

InputSchema(t) ==
    CASE t = "get_account_balance" ->
            [required |-> {"account"}, optional |-> {}]
      [] t = "add_transaction" ->
            [required |-> {"account", "amount"},
             optional |-> {"payee_name", "category", "notes", "date"}]
      [] t = "get_transactions" ->
            [required |-> {"account"}, optional |-> {"start_date", "end_date"}]
      [] t = "update_transaction" ->
            [required |-> {"id"},
             optional |-> {"amount", "category", "payee_name", "notes", "date", "cleared"}]
      [] t = "delete_transaction" ->
            [required |-> {"id"}, optional |-> {}]
      [] t = "set_budget_amount" ->
            [required |-> {"category", "amount"}, optional |-> {"month"}]
      [] t = "create_schedule" ->
            [required |-> {"account", "amount", "start_date", "frequency"},
             optional |-> {"name", "payee", "interval", "end_mode", "end_occurrences",
                           "end_date", "posts_transaction"}]
      [] t = "delete_schedule" ->
            [required |-> {"id"}, optional |-> {}]
      [] t = "search_transactions" ->
            [required |-> {},
             optional |-> {"payee", "notes", "min_amount", "max_amount", "start_date",
                           "end_date", "limit"}]
      [] t = "get_spending_summary" ->
            [required |-> {}, optional |-> {"start_date", "end_date"}]
      [] t = "get_budget_month" ->
            [required |-> {}, optional |-> {"month"}]
      [] t = "get_payees" ->
            [required |-> {}, optional |-> {"search"}]
      [] OTHER ->
            [required |-> {}, optional |-> {}]

Frequencies == {<<"daily">>, <<"weekly">>, <<"monthly">>, <<"yearly">>}
EndModes == {<<"never">>, <<"after_n_occurrences">>, <<"on_date">>}

HasEnum(t, f) == t = "create_schedule" /\ f \in {"frequency", "end_mode"}

\* mutant: the frequency enumeration admits any string
EnumValuesOpenFrequency(t, f) ==
    IF f = "frequency" THEN Frequencies \cup {<<"hourly">>} ELSE EndModes

\* z.enum([...]) of create_schedule
EnumValues(t, f) == IF f = "frequency" THEN Frequencies ELSE EndModes

\* the contract check made on every tools/call request before its handler runs
ValidArgs(t, a) ==
    LET s == InputSchema(t)
    IN  \A f \in s.required \cup s.optional :
            /\ Len(a[f]) <= 1
            /\ f \in s.required => Len(a[f]) = 1
            /\ (Len(a[f]) = 1 /\ HasEnum(t, f)) => a[f][1] \in EnumValues(t, f)

-----------------------------------------------------------------------------
(* Requests explored *)

Opt(S) == {None} \cup {Some(v) : v \in S}

AccountTokens == {<<"a", "1">>, <<"s", "v">>, <<"z">>}
CategoryTokens == {<<"f", "d">>, <<"c", "2">>, <<"z">>, << >>}
PayeeTokens == {<<"c", "o">>, <<"N", "w">>, << >>}
DateArg == <<"2024", "01", "15">>
\* -35.00, 0 and 0.125
Amounts == {-35000, 0, 125}

\* the transfer request of the README: a key the input contract does not declare
TransferRequest ==
    [account |-> Some(<<"a", "1">>), amount |-> Some(-35000), payee_name |-> None,
     category |-> None, notes |-> Some(<<"n">>), date |-> None,
     transfer_to |-> Some(<<"s", "v">>)]

ValidRequests(t) ==
    CASE t = "get_account_balance" ->
            [account : Opt(AccountTokens) \ {None}]
      [] t = "add_transaction" ->
            [account : Opt(AccountTokens) \ {None}, amount : Opt(Amounts) \ {None},
             payee_name : Opt({<<"C", "o">>}), category : Opt(CategoryTokens \ {<<"c", "2">>}),
             notes : Opt({<<"n">>}), date : Opt({DateArg})]
            \cup {TransferRequest}
      [] t = "get_transactions" ->
            [account : Opt(AccountTokens) \ {None}, start_date : Opt({DateArg}),
             end_date : Opt({DateArg})]
      [] t = "update_transaction" ->
            [id : {Some(<<"t", "1">>)}, amount : Opt({0, 125}),
             category : Opt(CategoryTokens \ {<<"f", "d">>}),
             payee_name : Opt({<<"C", "o">>}), notes : Opt({<< >>}),
             date : Opt({DateArg}), cleared : Opt(BOOLEAN)]
      [] t = "delete_transaction" ->
            [id : {Some(<<"t", "1">>), Some(<<"t", "9">>)}]
      [] t = "set_budget_amount" ->
            [month : Opt({<<"2024", "02">>}), category : Opt(CategoryTokens) \ {None},
             amount : Opt(Amounts) \ {None}]
      [] t = "create_schedule" ->
            [name : Opt({<<"R", "t">>}), account : Opt(AccountTokens) \ {None},
             payee : Opt(PayeeTokens), amount : {Some(-35000)},
             start_date : {Some(DateArg)}, frequency : {Some(<<"weekly">>), Some(<<"monthly">>)},
             interval : Opt({2}), end_mode : Opt({<<"on_date">>}),
             end_occurrences : {None}, end_date : {None},
             posts_transaction : {None}]
      [] t = "delete_schedule" ->
            [id : {Some(<<"s", "1">>)}]
      [] t = "search_transactions" ->
            [payee : Opt({<<"c", "O">>}), notes : {None}, min_amount : {None},
             max_amount : {None}, start_date : {None}, end_date : Opt({DateArg}),
             limit : {None}]
      [] t = "get_spending_summary" ->
            [start_date : Opt({DateArg}), end_date : {None}]
      [] t = "get_budget_month" ->
            [month : Opt({<<"2024", "02">>})]
      [] t = "get_payees" ->
            [search : Opt({<<"O">>, <<"z">>})]
      [] t = "importTransactions" ->
            [accountId : {Acc1.id},
             transactions : {<< >>, <<[date |-> DateArg, amount |-> -3500]>>}]
      [] t = "updateSchedule" ->
            [id : {<<"s", "1">>}, fields : {[name |-> <<"R", "t">>]}]
      [] OTHER -> {<< >>}

\* one well-formed request per tool, to be broken in one field
BaseRequest(t) ==
    CASE t = "get_account_balance" -> [account |-> Some(<<"a", "1">>)]
      [] t = "add_transaction" ->
            [account |-> Some(<<"a", "1">>), amount |-> Some(125), payee_name |-> None,
             category |-> None, notes |-> None, date |-> None]
      [] t = "get_transactions" ->
            [account |-> Some(<<"a", "1">>), start_date |-> None, end_date |-> None]
      [] t = "update_transaction" ->
            [id |-> Some(<<"t", "1">>), amount |-> Some(125), category |-> None,
             payee_name |-> None, notes |-> None, date |-> None, cleared |-> None]
      [] t = "delete_transaction" -> [id |-> Some(<<"t", "1">>)]
      [] t = "set_budget_amount" ->
            [month |-> None, category |-> Some(<<"f", "d">>), amount |-> Some(125)]
      [] t = "create_schedule" ->
            [name |-> None, account |-> Some(<<"a", "1">>), payee |-> Some(<<"N", "w">>),
             amount |-> Some(-35000), start_date |-> Some(DateArg),
             frequency |-> Some(<<"weekly">>), interval |-> None, end_mode |-> None,
             end_occurrences |-> None, end_date |-> None, posts_transaction |-> None]
      [] t = "search_transactions" ->
            [payee |-> None, notes |-> None, min_amount |-> None, max_amount |-> None,
             start_date |-> None, end_date |-> None, limit |-> Some(1)]
      [] t = "get_spending_summary" -> [start_date |-> None, end_date |-> None]
      [] t = "get_budget_month" -> [month |-> None]
      [] t = "get_payees" -> [search |-> None]
      [] OTHER -> [id |-> Some(<<"s", "1">>)]

\* requests that break the contract: a field of the wrong type, a required field
\* missing, a value outside its enumeration
InvalidRequests(t) ==
    IF t \notin Tools \ {"sync_budget"} THEN {}
    ELSE LET s == InputSchema(t)
             b == BaseRequest(t)
         IN  {[b EXCEPT ![f] = WrongType] : f \in s.required \cup s.optional}
             \cup {[b EXCEPT ![f] = None] : f \in s.required}
             \cup {[b EXCEPT ![f] = Some(<<"hourly">>)] :
                       f \in {g \in s.required \cup s.optional : HasEnum(t, g)}}

Requests(t) == ValidRequests(t) \cup InvalidRequests(t)

-----------------------------------------------------------------------------
(* Ledgers and requests of the search and summary checks *)

\* the sequences of at most n distinct elements of S
Arrangements(S, n) ==
    {q \in UNION {[1..k -> S] : k \in 0..n} : \A i, j \in 1..Len(q) : q[i] = q[j] => i = j}

TxnA == [id |-> <<"t", "a">>, date |-> <<"2024", "01", "01">>, amount |-> -3500,
         payee |-> Some(<<"p", "1">>), category |-> Some(<<"c", "1">>),
         notes |-> Some(<<"N", "x">>), cleared |-> Some(TRUE)]
TxnB == [id |-> <<"t", "b">>, date |-> <<"2024", "03", "01">>, amount |-> 1200,
         payee |-> None, category |-> None, notes |-> None, cleared |-> None]
TxnC == [id |-> <<"t", "c">>, date |-> <<"2024", "02", "01">>, amount |-> -500,
         payee |-> Some(<<"p", "9">>), category |-> Some(<<"c", "9">>),
         notes |-> Some(<<"x">>), cleared |-> Some(FALSE)]
TxnD == [id |-> <<"t", "d">>, date |-> <<"2024", "02", "01">>, amount |-> -9900,
         payee |-> Some(<<"p", "1">>), category |-> None,
         notes |-> None, cleared |-> None]

\* the two accounts, each open or closed, the second on or off budget
AccountLists ==
    {<<[Acc1 EXCEPT !.closed = c1], [Acc2 EXCEPT !.closed = c2, !.offbudget = o2]>> :
        c1 \in BOOLEAN, c2 \in BOOLEAN, o2 \in BOOLEAN}

TransactionLedgers ==
    {(Acc1.id :> q1) @@ (Acc2.id :> q2) :
        q1 \in Arrangements({TxnA, TxnB, TxnC}, MaxTransactions), q2 \in {<< >>, <<TxnD>>}}

\* 10.00 and 35.00; limits the contract accepts
SearchRequests ==
    [payee : Opt({<< >>, <<"c", "O">>}), notes : Opt({<<"n">>}),
     min_amount : Opt({10000}), max_amount : Opt({35000}),
     start_date : {None}, end_date : {None},
     limit : Opt({1, 0, -1})]

SummaryRequests == [start_date : Opt({DateArg}), end_date : Opt({DateArg})]

-----------------------------------------------------------------------------
(* Budget months of the rollup check *)

\* a category budgeted 4.00 that spent -5.00 or -3.00, or was refunded 2.00
BudgetCategories ==
    {[name |-> n, budgeted |-> 400, spent |-> sp, balance |-> 400 + sp] :
        <<n, sp>> \in {<<<<"F", "d">>, -500>>, <<<<"G", "s">>, -300>>, <<<<"R", "f">>, 200>>}}

SignedSpent(cats) ==
    LET sum[n \in 0..Len(cats)] == IF n = 0 THEN 0 ELSE sum[n - 1] + cats[n].spent
    IN  sum[Len(cats)]

\* a group budgeted 6.00; its own spent figure is the signed sum or unrelated
BudgetGroups ==
    {[name |-> <<"U", "s">>, budgeted |-> 600, spent |-> sp, balance |-> 600 + SignedSpent(cats),
      categories |-> cats] :
        <<cats, sp>> \in
            UNION {{<<q, SignedSpent(q)>>, <<q, 77>>} :
                      q \in Arrangements(BudgetCategories, MaxCategories)}}

BudgetMonths ==
    {[Budget1 EXCEPT !.categoryGroups = gs] : gs \in Arrangements(BudgetGroups, MaxCategories)}

BudgetRequests == [month : Opt({<<"2024", "02">>, << >>})]

-----------------------------------------------------------------------------
(* Schedules of the schedule listing check *)

ScheduleDates ==
    {[kind |-> "undefined", frequency |-> None, interval |-> None],
     [kind |-> "string", frequency |-> None, interval |-> None]}
    \cup [kind : {"object"}, frequency : Opt({<<"weekly">>}), interval : Opt({0, 1, 2})]
    \cup {[kind |-> "object", frequency |-> Some(<<"monthly">>), interval |-> Some(3)]}

ScheduleAmounts ==
    {[kind |-> "number", num1 |-> -120000], [kind |-> "range", num1 |-> 5000],
     [kind |-> "undefined", num1 |-> 0]}

\* the shapes of a schedule: every date with a plain amount, and a date with each
\* other amount
ScheduleShapes ==
    {[date |-> d, amount |-> [kind |-> "number", num1 |-> -120000]] : d \in ScheduleDates}
    \cup {[date |-> [kind |-> "string", frequency |-> None, interval |-> None], amount |-> m] :
             m \in ScheduleAmounts}

\* schedules s1, s2, ... of every shape
ScheduleLists ==
    UNION {{[i \in 1..n |-> [Sched1 EXCEPT !.id = <<"s", Digit(i)>>, !.date = sh[i].date,
                                             !.amount = sh[i].amount]] :
               sh \in [1..n -> ScheduleShapes]} :
           n \in 0..MaxSchedules}

-----------------------------------------------------------------------------
(* ActualBudgetClient: each method awaits ensureInitialized(), then one    *)
(* backend call, then (the mutating ones) api.sync().                      *)

\* a JS object property that may be missing
Get(obj, f) == IF f \in DOMAIN obj THEN obj[f] ELSE None

\* the backend call a client method makes, with its argument
ClientApi(method, c) ==
    CASE method = "getAccounts" -> [api |-> "getAccounts", payload |-> None]
      [] method = "getAccountBalance" -> [api |-> "getAccountBalance", payload |-> c]
      [] method = "getTransactions" -> [api |-> "getTransactions", payload |-> c]
      [] method = "addTransaction" ->
            [api |-> "importTransactions",
             payload |-> [accountId |-> c.account,
                          transactions |->
                              <<[account |-> c.account, date |-> c.date, amount |-> c.amount,
                                 payee |-> Get(c, "payee"), payee_name |-> Get(c, "payee_name"),
                                 category |-> Get(c, "category"), notes |-> Get(c, "notes"),
                                 cleared |-> Get(c, "cleared")]>>]]
      [] method = "importTransactions" ->
            [api |-> "importTransactions",
             payload |-> [accountId |-> c.accountId,
                          transactions |->
                              [i \in 1..Len(c.transactions) |->
                                  [date |-> c.transactions[i].date,
                                   amount |-> c.transactions[i].amount,
                                   account |-> c.accountId]]]]
      [] method = "updateTransaction" -> [api |-> "updateTransaction", payload |-> c]
      [] method = "deleteTransaction" -> [api |-> "deleteTransaction", payload |-> c]
      [] method = "getCategories" -> [api |-> "getCategories", payload |-> None]
      [] method = "getPayees" -> [api |-> "getPayees", payload |-> None]
      [] method = "getBudgetMonth" -> [api |-> "getBudgetMonth", payload |-> c]
      [] method = "getSchedules" -> [api |-> "getSchedules", payload |-> None]
      [] method = "getCategoryGroups" -> [api |-> "getCategoryGroups", payload |-> None]
      [] method = "createPayee" -> [api |-> "createPayee", payload |-> [name |-> c]]
      [] method = "setBudgetAmount" -> [api |-> "setBudgetAmount", payload |-> c]
      [] method = "createSchedule" -> [api |-> "createSchedule", payload |-> c]
      [] method = "updateSchedule" -> [api |-> "updateSchedule", payload |-> c]
      [] method = "deleteSchedule" -> [api |-> "deleteSchedule", payload |-> c]
      [] OTHER -> [api |-> "sync", payload |-> None]

MutatingMethods ==
    {"addTransaction", "importTransactions", "updateTransaction", "deleteTransaction",
     "createPayee", "setBudgetAmount", "createSchedule", "updateSchedule", "deleteSchedule"}

\* mutant: createPayee returns the id without synchronizing
SyncsAfterExceptCreatePayee(method) == method \in MutatingMethods \ {"createPayee"}

\* the client methods that await api.sync() after their backend call
SyncsAfter(method) == method \in MutatingMethods

\* what the client method returns, from what the backend returned
ClientReturn(method, r) ==
    CASE method = "addTransaction" ->
            IF Len(r.added) > 0 /\ r.added[1] # << >> THEN r.added[1] ELSE <<"unknown">>
      [] method = "importTransactions" -> [added |-> r.added, updated |-> r.updated]
      [] method \in {"getAccounts", "getAccountBalance", "getTransactions", "getCategories",
                     "getPayees", "createPayee", "createSchedule", "getSchedules",
                     "getCategoryGroups"} -> r
      [] method = "getBudgetMonth" ->
            [month |-> r.month,
             totalBudgeted |-> r.totalBudgeted,
             toBudget |-> r.toBudget,
             categoryGroups |->
                [g \in 1..Len(r.categoryGroups) |->
                    [name |-> r.categoryGroups[g].name,
                     budgeted |-> r.categoryGroups[g].budgeted,
                     spent |-> r.categoryGroups[g].spent,
                     balance |-> r.categoryGroups[g].balance,
                     categories |->
                        [c \in 1..Len(r.categoryGroups[g].categories) |->
                            [name |-> r.categoryGroups[g].categories[c].name,
                             budgeted |-> r.categoryGroups[g].categories[c].budgeted,
                             spent |-> r.categoryGroups[g].categories[c].spent,
                             balance |-> r.categoryGroups[g].categories[c].balance]]]]]
      [] OTHER -> None

-----------------------------------------------------------------------------
(* The backend (@actual-app/api) *)

WriteApis == {"importTransactions", "updateTransaction", "deleteTransaction", "createPayee",
              "setBudgetAmount", "createSchedule", "updateSchedule", "deleteSchedule"}

\* what a successful backend call may return
ApiReturns(api, payload) ==
    CASE api = "getAccounts" -> {accounts}
      [] api = "getCategories" -> {categories}
      [] api = "getPayees" -> {payees}
      [] api = "getAccountBalance" -> {BalanceOf(payload)}
      [] api = "getTransactions" -> {TransactionsOf(payload.accountId)}
      [] api = "getBudgetMonth" -> {budget}
      [] api = "getSchedules" -> {schedules}
      [] api = "getCategoryGroups" -> {CategoryGroups}
      [] api = "importTransactions" ->
            IF Len(payload.transactions) = 0
            THEN {[added |-> << >>, updated |-> << >>]}
            ELSE {[added |-> <<NewTransactionId>>, updated |-> << >>],
                  [added |-> << >>, updated |-> <<Txn1.id>>]}
      [] api = "createPayee" -> {NewPayeeId}
      [] api = "createSchedule" -> {NewScheduleId}
      [] OTHER -> {None}

\* the entity a write touches
WriteKey(api, payload) ==
    CASE api = "importTransactions" -> payload.accountId
      [] api = "createPayee" -> payload.name
      [] api = "setBudgetAmount" -> payload.categoryId
      [] api = "createSchedule" -> payload.account
      [] OTHER -> payload.id

LedgerAfter(api, payload) ==
    IF api \in WriteApis
    THEN Append(ledger, [api |-> api, key |-> WriteKey(api, payload)])
    ELSE ledger

PayeesAfter(api, payload) ==
    IF api = "createPayee"
    THEN Append(payees, [id |-> NewPayeeId, name |-> payload.name])
    ELSE payees

-----------------------------------------------------------------------------
(* Tool handlers.  handler(a, l, step, ret) is the handler's code from the *)
(* return of the client method `step` with value `ret` ("start": from its  *)
(* entry) up to its next await: the next client call, a throw or a return. *)

EmptyLoc == [foundAccount |-> None, foundCategory |-> None, categoryId |-> None,
             payeeId |-> None, targetMonth |-> None, startDate |-> None,
             endDate |-> None, transactions |-> None, payees |-> None,
             accounts |-> None, categories |-> None, schedules |-> None,
             groups |-> None, balances |-> << >>,
             pending |-> << >>, allTransactions |-> << >>,
             apiResult |-> None]

\* JSON.stringify(value, null, 2): the text that renders the value
JSONStringify(value) == <<"json", value>>

\* a rejected handler: the caller gets the error
Failure(e) == Some([isError |-> TRUE, error |-> e, output |-> None, text |-> None])

\* mutant: the text renders only the success flag
SuccessTextOfFlag(o) ==
    Some([isError |-> FALSE, error |-> None, output |-> o,
          text |-> Some(JSONStringify([success |-> TRUE]))])

\* return { content: [{ type: 'text', text: JSON.stringify(output, null, 2) }],
\*          structuredContent: output }: `output` is the structured content
Success(o) ==
    Some([isError |-> FALSE, error |-> None, output |-> o, text |-> Some(JSONStringify(o))])

Call(method, c, l) == [pc |-> method, carg |-> c, loc |-> l, result |-> None]
Throw(e, l) == [pc |-> "done", carg |-> None, loc |-> l, result |-> Failure(e)]
Return(o, l) == [pc |-> "done", carg |-> None, loc |-> l, result |-> Success(o)]

\* throw new Error(`Account not found: ${account}`)
NotFound(what, token) == [kind |-> "NotFound", what |-> what, token |-> token]

\* new Map(coll.map((r) => [r.id, r.name])).get(id)
MapGet(coll, id) ==
    LET S == {i \in 1..Len(coll) : coll[i].id = id}
    IN  IF S = {} THEN None ELSE Some(coll[CHOOSE i \in S : \A j \in S : j <= i].name)

\* x || dflt for an optional string
OrElse(o, dflt) == IF TruthyStr(o) THEN o[1] ELSE dflt

get_account_balance(a, l, step, ret) ==
    CASE step = "start" -> Call("getAccounts", None, l)
      [] step = "getAccounts" ->
            LET found == FindByIdOrName(ret, a.account[1])
            IN  IF found = None
                THEN Throw(NotFound("Account", a.account[1]), l)
                ELSE Call("getAccountBalance", found[1].id, [l EXCEPT !.foundAccount = found])
      [] OTHER ->
            Return([account_name |-> l.foundAccount[1].name, balance |-> fromAmount(ret)], l)

\* mutant: an unresolved category aborts add_transaction
add_transactionStrictCategory(a, l, step, ret) ==
    LET submit(lc) ==
            Call("addTransaction",
                 [account |-> lc.foundAccount[1].id,
                  date |-> OrElse(a.date, getToday),
                  amount |-> toAmount(a.amount[1]),
                  payee_name |-> a.payee_name,
                  category |-> lc.categoryId,
                  notes |-> a.notes],
                 lc)
    IN  CASE step = "start" -> Call("getAccounts", None, l)
          [] step = "getAccounts" ->
                LET found == FindByIdOrName(ret, a.account[1])
                IN  IF found = None
                    THEN Throw(NotFound("Account", a.account[1]), l)
                    ELSE IF TruthyStr(a.category)
                         THEN Call("getCategories", None, [l EXCEPT !.foundAccount = found])
                         ELSE submit([l EXCEPT !.foundAccount = found])
          [] step = "getCategories" ->
                LET foundCategory == FindByIdOrName(ret, a.category[1])
                IN  IF foundCategory = None
                    THEN Throw(NotFound("Category", a.category[1]), l)
                    ELSE submit([l EXCEPT !.categoryId = Some(foundCategory[1].id)])
          [] OTHER ->
                Return([success |-> TRUE, transaction_id |-> ret], l)

add_transaction(a, l, step, ret) ==
    LET submit(lc) ==
            Call("addTransaction",
                 [account |-> lc.foundAccount[1].id,
                  date |-> OrElse(a.date, getToday),
                  amount |-> toAmount(a.amount[1]),
                  payee_name |-> a.payee_name,
                  category |-> lc.categoryId,
                  notes |-> a.notes],
                 lc)
    IN  CASE step = "start" -> Call("getAccounts", None, l)
          [] step = "getAccounts" ->
                LET found == FindByIdOrName(ret, a.account[1])
                IN  IF found = None
                    THEN Throw(NotFound("Account", a.account[1]), l)
                    ELSE IF TruthyStr(a.category)
                         THEN Call("getCategories", None, [l EXCEPT !.foundAccount = found])
                         ELSE submit([l EXCEPT !.foundAccount = found])
          [] step = "getCategories" ->
                LET foundCategory == FindByIdOrName(ret, a.category[1])
                IN  submit([l EXCEPT !.categoryId =
                                IF foundCategory = None THEN None
                                ELSE Some(foundCategory[1].id)])
          [] OTHER ->
                Return([success |-> TRUE,
                        transaction_id |-> ret,
                        message |-> [abs_amount |-> Abs(a.amount[1]),
                                     direction |-> IF a.amount[1] < 0 THEN "expense"
                                                   ELSE "income",
                                     account_name |-> l.foundAccount[1].name]], l)

get_transactions(a, l, step, ret) ==
    CASE step = "start" -> Call("getAccounts", None, l)
      [] step = "getAccounts" ->
            LET found == FindByIdOrName(ret, a.account[1])
                endDate == OrElse(a.end_date, getToday)
                startDate == OrElse(a.start_date, formatDate(ThirtyDaysAgo))
            IN  IF found = None
                THEN Throw(NotFound("Account", a.account[1]), l)
                ELSE Call("getTransactions",
                          [accountId |-> found[1].id, startDate |-> startDate,
                           endDate |-> endDate],
                          [l EXCEPT !.foundAccount = found, !.startDate = Some(startDate),
                                    !.endDate = Some(endDate)])
      [] step = "getTransactions" ->
            Call("getPayees", None, [l EXCEPT !.transactions = Some(ret)])
      [] step = "getPayees" ->
            Call("getCategories", None, [l EXCEPT !.payees = Some(ret)])
      [] OTHER ->
            LET txs == l.transactions[1]
                formatted ==
                    [i \in 1..Len(txs) |->
                        [id |-> txs[i].id,
                         date |-> txs[i].date,
                         amount |-> fromAmount(txs[i].amount),
                         payee |-> IF TruthyStr(txs[i].payee)
                                   THEN MapGet(l.payees[1], txs[i].payee[1]) ELSE None,
                         category |-> IF TruthyStr(txs[i].category)
                                      THEN MapGet(ret, txs[i].category[1]) ELSE None,
                         notes |-> txs[i].notes,
                         cleared |-> txs[i].cleared]]
            IN  Return([account_name |-> l.foundAccount[1].name,
                        transactions |-> formatted,
                        total_count |-> Len(formatted)], l)

\* mutant: tests the supplied fields for truthiness instead of `!== undefined`
SuppliedUpdateKeysTruthy(a) ==
    {f \in {"payee_name", "notes", "date"} : TruthyStr(a[f])}
    \cup {f \in {"amount"} : IsSome(a[f]) /\ a[f][1] # 0}
    \cup {f \in {"cleared"} : IsSome(a[f]) /\ a[f][1]}

\* the keys update_transaction copies into `updates`: if (x !== undefined)
SuppliedUpdateKeys(a) ==
    {f \in {"amount", "payee_name", "notes", "date", "cleared"} : IsSome(a[f])}

update_transaction(a, l, step, ret) ==
    LET base == [f \in SuppliedUpdateKeys(a) |->
                    IF f = "amount" THEN toAmount(a[f][1]) ELSE a[f][1]]
        withCategory(id) ==
            [f \in DOMAIN base \cup {"category"} |->
                IF f = "category" THEN id ELSE base[f]]
        submit(updates) ==
            Call("updateTransaction", [id |-> a.id[1], fields |-> updates], l)
    IN  CASE step = "start" ->
                IF TruthyStr(a.category) THEN Call("getCategories", None, l)
                ELSE submit(base)
          [] step = "getCategories" ->
                LET foundCategory == FindByIdOrName(ret, a.category[1])
                IN  IF foundCategory = None THEN submit(base)
                    ELSE submit(withCategory(foundCategory[1].id))
          [] OTHER -> Return([success |-> TRUE, message |-> [id |-> a.id[1]]], l)

delete_transaction(a, l, step, ret) ==
    CASE step = "start" -> Call("deleteTransaction", [id |-> a.id[1]], l)
      [] OTHER -> Return([success |-> TRUE, message |-> [id |-> a.id[1]]], l)

\* mutant: an unresolved category is passed on as given
set_budget_amountLenient(a, l, step, ret) ==
    CASE step = "start" -> Call("getCategories", None, l)
      [] step = "getCategories" ->
            LET foundCategory == FindByIdOrName(ret, a.category[1])
                cat == IF foundCategory = None
                       THEN [id |-> a.category[1], name |-> a.category[1]]
                       ELSE foundCategory[1]
            IN  Call("setBudgetAmount",
                     [month |-> OrElse(a.month, getCurrentMonth),
                      categoryId |-> cat.id,
                      amount |-> toAmount(a.amount[1])],
                     [l EXCEPT !.foundCategory = Some(cat)])
      [] OTHER -> Return([success |-> TRUE], l)

set_budget_amount(a, l, step, ret) ==
    LET targetMonth == OrElse(a.month, getCurrentMonth)
    IN  CASE step = "start" ->
                Call("getCategories", None, [l EXCEPT !.targetMonth = Some(targetMonth)])
          [] step = "getCategories" ->
                LET foundCategory == FindByIdOrName(ret, a.category[1])
                IN  IF foundCategory = None
                    THEN Throw(NotFound("Category", a.category[1]), l)
                    ELSE Call("setBudgetAmount",
                              [month |-> targetMonth,
                               categoryId |-> foundCategory[1].id,
                               amount |-> toAmount(a.amount[1])],
                              [l EXCEPT !.foundCategory = foundCategory])
          [] OTHER ->
                Return([success |-> TRUE,
                        message |-> [category_name |-> l.foundCategory[1].name,
                                     amount |-> a.amount[1],
                                     month |-> targetMonth]], l)


\* x || dflt for an optional number
OrElseNum(o, dflt) == IF IsSome(o) /\ o[1] # 0 THEN o[1] ELSE dflt

\* the object create_schedule passes to client.createSchedule
ScheduleInput(a, accountId, payeeId) ==
    [name |-> a.name,
     account |-> accountId,
     payee |-> payeeId,
     amount |-> toAmount(a.amount[1]),
     posts_transaction |-> IsSome(a.posts_transaction) /\ a.posts_transaction[1],
     date |-> [frequency |-> a.frequency[1],
               start |-> a.start_date[1],
               interval |-> OrElseNum(a.interval, 1),
               endMode |-> OrElse(a.end_mode, <<"never">>),
               endOccurrences |-> a.end_occurrences,
               endDate |-> a.end_date]]

\* mutant: finds or creates the payee before it resolves the account
create_schedulePayeeFirst(a, l, step, ret) ==
    CASE step = "start" ->
            IF TruthyStr(a.payee) THEN Call("getPayees", None, l)
            ELSE Call("getAccounts", None, l)
      [] step = "getPayees" ->
            LET foundPayee == FindByName(ret, a.payee[1])
            IN  IF foundPayee = None THEN Call("createPayee", a.payee[1], l)
                ELSE Call("getAccounts", None, [l EXCEPT !.payeeId = Some(foundPayee[1].id)])
      [] step = "createPayee" ->
            Call("getAccounts", None, [l EXCEPT !.payeeId = Some(ret)])
      [] step = "getAccounts" ->
            LET found == FindByIdOrName(ret, a.account[1])
            IN  IF found = None
                THEN Throw(NotFound("Account", a.account[1]), l)
                ELSE Call("createSchedule", ScheduleInput(a, found[1].id, l.payeeId), l)
      [] OTHER -> Return([success |-> TRUE, schedule_id |-> ret], l)

create_schedule(a, l, step, ret) ==
    LET submit(lc) ==
            Call("createSchedule", ScheduleInput(a, lc.foundAccount[1].id, lc.payeeId), lc)
    IN  CASE step = "start" -> Call("getAccounts", None, l)
          [] step = "getAccounts" ->
                LET found == FindByIdOrName(ret, a.account[1])
                IN  IF found = None
                    THEN Throw(NotFound("Account", a.account[1]), l)
                    ELSE IF TruthyStr(a.payee)
                         THEN Call("getPayees", None, [l EXCEPT !.foundAccount = found])
                         ELSE submit([l EXCEPT !.foundAccount = found])
          [] step = "getPayees" ->
                LET foundPayee == FindByName(ret, a.payee[1])
                IN  IF foundPayee = None
                    THEN Call("createPayee", a.payee[1], l)
                    ELSE submit([l EXCEPT !.payeeId = Some(foundPayee[1].id)])
          [] step = "createPayee" ->
                submit([l EXCEPT !.payeeId = Some(ret)])
          [] OTHER ->
                Return([success |-> TRUE,
                        schedule_id |-> ret,
                        message |-> [frequency |-> a.frequency[1],
                                     name |-> OrElse(a.name, <<"Unnamed">>),
                                     start_date |-> a.start_date[1]]], l)

delete_schedule(a, l, step, ret) ==
    CASE step = "start" -> Call("deleteSchedule", [id |-> a.id[1]], l)
      [] OTHER -> Return([success |-> TRUE, message |-> [id |-> a.id[1]]], l)

sync_budget(a, l, step, ret) ==
    CASE step = "start" -> Call("sync", None, l)
      [] OTHER -> Return([success |-> TRUE], l)

\* mutant: every account is queried, closed ones included
OpenAccountsAll(coll) == coll

\* accounts.filter((a) => !a.closed)
OpenAccounts(coll) == SelectSeq(coll, LAMBDA acc : ~acc.closed)

\* transactions.map((t) => ({ ...t, accountId: acc.id }))
Tagged(txs, accountId) ==
    [i \in 1..Len(txs) |->
        [id |-> txs[i].id, date |-> txs[i].date, amount |-> txs[i].amount,
         payee |-> txs[i].payee, category |-> txs[i].category, notes |-> txs[i].notes,
         accountId |-> accountId]]

\* mutant: oldest first
ByDateAscending(x, y) == localeCompare(x.date, y.date)

\* (a, b) => b.date.localeCompare(a.date)
ByDateDescending(x, y) == localeCompare(y.date, x.date)

\* the filters of search_transactions, applied one after the other
SearchFiltered(a, l) ==
    LET byPayee(t) ==
            LET payeeName == IF TruthyStr(t.payee) THEN MapGet(l.payees[1], t.payee[1])
                             ELSE None
            IN  IsSome(payeeName)
                /\ Includes(toLowerCase(payeeName[1]), toLowerCase(a.payee[1]))
        byNotes(t) ==
            IsSome(t.notes) /\ Includes(toLowerCase(t.notes[1]), toLowerCase(a.notes[1]))
        atLeast(t) == Abs(t.amount) >= toAmount(a.min_amount[1])
        atMost(t) == Abs(t.amount) <= toAmount(a.max_amount[1])
        f0 == l.allTransactions
        f1 == IF TruthyStr(a.payee) THEN SelectSeq(f0, byPayee) ELSE f0
        f2 == IF TruthyStr(a.notes) THEN SelectSeq(f1, byNotes) ELSE f1
        f3 == IF IsSome(a.min_amount) THEN SelectSeq(f2, atLeast) ELSE f2
    IN  IF IsSome(a.max_amount) THEN SelectSeq(f3, atMost) ELSE f3

\* filtered.sort((a, b) => b.date.localeCompare(a.date))
SortByDate(s) ==
    Sort(s, [p \in Elements(s) \X Elements(s) |-> ByDateDescending(p[1], p[2])])

\* the output of search_transactions: sort, limit, format
SearchOutput(a, l) ==
    LET sorted == SortByDate(SearchFiltered(a, l))
        maxResults == OrElseNum(a.limit, 50)
        filtered == Slice(sorted, maxResults)
        formattedTransactions ==
            [i \in 1..Len(filtered) |->
                [id |-> filtered[i].id,
                 account |-> OrElse(MapGet(l.accounts[1], filtered[i].accountId), <<"Unknown">>),
                 date |-> filtered[i].date,
                 amount |-> fromAmount(filtered[i].amount),
                 payee |-> IF TruthyStr(filtered[i].payee)
                           THEN MapGet(l.payees[1], filtered[i].payee[1]) ELSE None,
                 category |-> IF TruthyStr(filtered[i].category)
                              THEN MapGet(l.categories[1], filtered[i].category[1]) ELSE None,
                 notes |-> filtered[i].notes]]
    IN  [transactions |-> formattedTransactions, total_count |-> Len(formattedTransactions)]

search_transactions(a, l, step, ret) ==
    LET endDate == OrElse(a.end_date, getToday)
        startDate == OrElse(a.start_date, formatDate(NinetyDaysAgo))
        \* the loop over the open accounts: the next getTransactions, or the output
        loop(lc) ==
            IF lc.pending = << >> THEN Return(SearchOutput(a, lc), lc)
            ELSE Call("getTransactions",
                      [accountId |-> Head(lc.pending).id, startDate |-> startDate,
                       endDate |-> endDate], lc)
    IN  CASE step = "start" -> Call("getAccounts", None, l)
          [] step = "getAccounts" -> Call("getPayees", None, [l EXCEPT !.accounts = Some(ret)])
          [] step = "getPayees" -> Call("getCategories", None, [l EXCEPT !.payees = Some(ret)])
          [] step = "getCategories" ->
                loop([l EXCEPT !.categories = Some(ret),
                               !.pending = OpenAccounts(l.accounts[1])])
          [] OTHER ->
                loop([l EXCEPT !.allTransactions = @ \o Tagged(ret, Head(l.pending).id),
                               !.pending = Tail(@)])

\* accounts.filter((a) => !a.closed && !a.offbudget)
OnBudgetAccounts(coll) == SelectSeq(coll, LAMBDA acc : ~acc.closed /\ ~acc.offbudget)

\* mutant: every expense goes to one bucket
BucketOfSingle(t, cats) == <<"Uncategorized">>

\* t.category ? categoryMap.get(t.category) || 'Uncategorized' : 'Uncategorized'
BucketOf(t, cats) ==
    IF TruthyStr(t.category)
    THEN OrElse(MapGet(cats, t.category[1]), <<"Uncategorized">>)
    ELSE <<"Uncategorized">>

\* mutant: categoryTotals.set(k, v), the earlier total of the bucket lost
AddToBucketOverwrite(m, k, v) ==
    IF \E i \in 1..Len(m) : m[i].category = k
    THEN [i \in 1..Len(m) |->
            IF m[i].category = k THEN [m[i] EXCEPT !.amount = v] ELSE m[i]]
    ELSE Append(m, [category |-> k, amount |-> v])

\* categoryTotals.set(k, (categoryTotals.get(k) || 0) + v): a Map keeps insertion order
AddToBucket(m, k, v) ==
    IF \E i \in 1..Len(m) : m[i].category = k
    THEN [i \in 1..Len(m) |->
            IF m[i].category = k THEN [m[i] EXCEPT !.amount = @ + v] ELSE m[i]]
    ELSE Append(m, [category |-> k, amount |-> v])

\* the loop `for (const t of allTransactions)` from the totals in acc
RECURSIVE SpendingTotals(_, _, _)
SpendingTotals(txs, cats, acc) ==
    IF txs = << >> THEN acc
    ELSE LET t == Head(txs)
         IN  SpendingTotals(Tail(txs), cats,
                IF t.amount < 0
                THEN [acc EXCEPT !.totalSpent = @ + Abs(t.amount),
                                 !.categoryTotals =
                                     AddToBucket(@, BucketOf(t, cats), Abs(t.amount))]
                ELSE [acc EXCEPT !.totalIncome = @ + t.amount])

\* mutant: the percentage is cut, not rounded
PercentageTruncated(amount, totalSpent) ==
    IF totalSpent > 0 THEN (100 * amount) \div totalSpent ELSE 0

\* totalSpent > 0 ? Math.round((amount / totalSpent) * 100) : 0, for amount >= 0
Percentage(amount, totalSpent) ==
    IF totalSpent > 0 THEN (200 * amount + totalSpent) \div (2 * totalSpent) ELSE 0

\* (a, b) => b.amount - a.amount
ByAmountDescending(x, y) == y.amount - x.amount

\* .sort((a, b) => b.amount - a.amount)
SortByAmount(s) ==
    Sort(s, [p \in Elements(s) \X Elements(s) |-> ByAmountDescending(p[1], p[2])])

\* the output of get_spending_summary
SummaryOutput(l) ==
    LET totals == SpendingTotals(l.allTransactions, l.categories[1],
                                 [totalSpent |-> 0, totalIncome |-> 0,
                                  categoryTotals |-> << >>])
        entries == totals.categoryTotals
        mapped == [i \in 1..Len(entries) |->
                    [category |-> entries[i].category,
                     amount |-> fromAmount(entries[i].amount),
                     percentage |-> Percentage(entries[i].amount, totals.totalSpent)]]
        byCategory == SortByAmount(mapped)
    IN  [period |-> [start |-> l.startDate[1], end |-> l.endDate[1]],
         total_spent |-> fromAmount(totals.totalSpent),
         total_income |-> fromAmount(totals.totalIncome),
         net |-> fromAmount(totals.totalIncome - totals.totalSpent),
         by_category |-> byCategory]

get_spending_summary(a, l, step, ret) ==
    LET loop(lc) ==
            IF lc.pending = << >> THEN Return(SummaryOutput(lc), lc)
            ELSE Call("getTransactions",
                      [accountId |-> Head(lc.pending).id, startDate |-> lc.startDate[1],
                       endDate |-> lc.endDate[1]], lc)
    IN  CASE step = "start" ->
                Call("getAccounts", None,
                     [l EXCEPT !.endDate = Some(OrElse(a.end_date, getToday)),
                               !.startDate = Some(OrElse(a.start_date,
                                                         formatDate(FirstOfLocalMonth)))])
          [] step = "getAccounts" ->
                Call("getCategories", None, [l EXCEPT !.accounts = Some(ret)])
          [] step = "getCategories" ->
                loop([l EXCEPT !.categories = Some(ret),
                               !.pending = OnBudgetAccounts(l.accounts[1])])
          [] OTHER ->
                loop([l EXCEPT !.allTransactions = @ \o ret, !.pending = Tail(@)])

\* mutant: the group's own spent figure is reported
GroupSpentRaw(g) == Abs(g.spent)

\* g.categories.reduce((sum, c) => sum + Math.abs(c.spent), 0)
GroupSpent(g) ==
    LET reduce[n \in 0..Len(g.categories)] ==
            IF n = 0 THEN 0 ELSE reduce[n - 1] + Abs(g.categories[n].spent)
    IN  reduce[Len(g.categories)]

\* the output of get_budget_month; totalSpent accumulates over the groups in order
BudgetOutput(targetMonth, b) ==
    LET totalSpent[n \in 0..Len(b.categoryGroups)] ==
            IF n = 0 THEN 0 ELSE totalSpent[n - 1] + GroupSpent(b.categoryGroups[n])
        groups ==
            [i \in 1..Len(b.categoryGroups) |->
                LET g == b.categoryGroups[i]
                IN  [name |-> g.name,
                     budgeted |-> fromAmount(g.budgeted),
                     spent |-> fromAmount(GroupSpent(g)),
                     balance |-> fromAmount(g.balance),
                     categories |->
                        [j \in 1..Len(g.categories) |->
                            [name |-> g.categories[j].name,
                             budgeted |-> fromAmount(g.categories[j].budgeted),
                             spent |-> fromAmount(Abs(g.categories[j].spent)),
                             balance |-> fromAmount(g.categories[j].balance)]]]]
    IN  [month |-> targetMonth,
         to_budget |-> fromAmount(b.toBudget),
         total_budgeted |-> fromAmount(b.totalBudgeted),
         total_spent |-> fromAmount(totalSpent[Len(b.categoryGroups)]),
         category_groups |-> groups]

get_budget_month(a, l, step, ret) ==
    CASE step = "start" ->
            LET targetMonth == OrElse(a.month, getCurrentMonth)
            IN  Call("getBudgetMonth", targetMonth, [l EXCEPT !.targetMonth = Some(targetMonth)])
      [] OTHER -> Return(BudgetOutput(l.targetMonth[1], ret), l)

\* the amount of a schedule: a number, or the first endpoint of a range
ScheduleAmount(sch) ==
    IF sch.amount.kind \in {"number", "range"} THEN Some(fromAmount(sch.amount.num1))
    ELSE None

\* mutant: every schedule with a frequency is reported with its interval
ScheduleFrequencyAlwaysEvery(sch) ==
    IF sch.date.kind = "object" /\ IsSome(sch.date.frequency)
    THEN Some(<<"every", Digit(OrElseNum(sch.date.interval, 1))>> \o sch.date.frequency[1])
    ELSE None

\* the frequency string of a schedule: `every ${interval} ${freq}` is the sequence of
\* its three words
ScheduleFrequency(sch) ==
    IF sch.date.kind = "object" /\ IsSome(sch.date.frequency)
    THEN LET interval == OrElseNum(sch.date.interval, 1)
             freq == sch.date.frequency[1]
         IN  IF interval = 1 THEN Some(freq)
             ELSE Some(<<"every", Digit(interval)>> \o freq)
    ELSE None

\* the output of get_schedules
SchedulesOutput(l, payeeList) ==
    LET formattedSchedules ==
            [i \in 1..Len(l.schedules[1]) |->
                LET sch == l.schedules[1][i]
                IN  [id |-> sch.id,
                     name |-> sch.name,
                     next_date |-> sch.next_date,
                     frequency |-> ScheduleFrequency(sch),
                     amount |-> ScheduleAmount(sch),
                     payee |-> IF TruthyStr(sch.payee) THEN MapGet(payeeList, sch.payee[1])
                               ELSE None,
                     account |-> IF TruthyStr(sch.account)
                                 THEN MapGet(l.accounts[1], sch.account[1]) ELSE None,
                     completed |-> sch.completed]]
    IN  [schedules |-> formattedSchedules, total_count |-> Len(formattedSchedules)]

get_schedules(a, l, step, ret) ==
    CASE step = "start" -> Call("getSchedules", None, l)
      [] step = "getSchedules" -> Call("getAccounts", None, [l EXCEPT !.schedules = Some(ret)])
      [] step = "getAccounts" -> Call("getPayees", None, [l EXCEPT !.accounts = Some(ret)])
      [] OTHER -> Return(SchedulesOutput(l, ret), l)

\* get_accounts: the balances are awaited together (Promise.all over accounts.map);
\* the backend is asked for them in the order of the accounts
\* the output of get_accounts from the account list and the array Promise.all gives
AccountsOutput(accts, balances) ==
    [accounts |->
        [i \in 1..Len(accts) |->
            [id |-> accts[i].id,
             name |-> accts[i].name,
             balance |-> fromAmount(balances[i]),
             offbudget |-> accts[i].offbudget,
             closed |-> accts[i].closed]]]

get_accounts(a, l, step, ret) ==
    LET output(lc) == AccountsOutput(lc.accounts[1], lc.balances)
        loop(lc) ==
            IF lc.pending = << >> THEN Return(output(lc), lc)
            ELSE Call("getAccountBalance", Head(lc.pending).id, lc)
    IN  CASE step = "start" -> Call("getAccounts", None, l)
          [] step = "getAccounts" -> loop([l EXCEPT !.accounts = Some(ret), !.pending = ret])
          [] OTHER -> loop([l EXCEPT !.balances = Append(@, ret), !.pending = Tail(@)])

get_categories(a, l, step, ret) ==
    CASE step = "start" -> Call("getCategoryGroups", None, l)
      [] step = "getCategoryGroups" -> Call("getCategories", None, [l EXCEPT !.groups = Some(ret)])
      [] OTHER ->
            LET groups == l.groups[1]
                inGroup(g) == SelectSeq(ret, LAMBDA c : Get(c, "group_id") = g.id)
            IN  Return([category_groups |->
                          [i \in 1..Len(groups) |->
                              [id |-> groups[i].id,
                               name |-> groups[i].name,
                               is_income |-> groups[i].is_income,
                               categories |->
                                  [j \in 1..Len(inGroup(groups[i])) |->
                                      [id |-> inGroup(groups[i])[j].id,
                                       name |-> inGroup(groups[i])[j].name]]]]], l)

get_payees(a, l, step, ret) ==
    CASE step = "start" -> Call("getPayees", None, l)
      [] OTHER ->
            LET noTransfer == SelectSeq(ret, LAMBDA p : ~TruthyStr(Get(p, "transfer_acct")))
                found ==
                    IF TruthyStr(a.search)
                    THEN SelectSeq(noTransfer,
                                   LAMBDA p : Includes(toLowerCase(p.name),
                                                       toLowerCase(a.search[1])))
                    ELSE noTransfer
            IN  Return([payees |-> [i \in 1..Len(found) |->
                                      [id |-> found[i].id, name |-> found[i].name]],
                        total_count |-> Len(found)], l)

\* a direct call of a public client method
DirectCall(t, a, l, step, ret) ==
    CASE step = "start" -> Call(t, a, l)
      [] OTHER -> Return([value |-> ret], l)

Handler(t, a, l, step, ret) ==
    CASE t = "get_account_balance" -> get_account_balance(a, l, step, ret)
      [] t = "add_transaction" -> add_transaction(a, l, step, ret)
      [] t = "get_transactions" -> get_transactions(a, l, step, ret)
      [] t = "update_transaction" -> update_transaction(a, l, step, ret)
      [] t = "delete_transaction" -> delete_transaction(a, l, step, ret)
      [] t = "set_budget_amount" -> set_budget_amount(a, l, step, ret)
      [] t = "create_schedule" -> create_schedule(a, l, step, ret)
      [] t = "delete_schedule" -> delete_schedule(a, l, step, ret)
      [] t = "sync_budget" -> sync_budget(a, l, step, ret)
      [] t = "search_transactions" -> search_transactions(a, l, step, ret)
      [] t = "get_spending_summary" -> get_spending_summary(a, l, step, ret)
      [] t = "get_budget_month" -> get_budget_month(a, l, step, ret)
      [] t = "get_schedules" -> get_schedules(a, l, step, ret)
      [] t = "get_accounts" -> get_accounts(a, l, step, ret)
      [] t = "get_categories" -> get_categories(a, l, step, ret)
      [] t = "get_payees" -> get_payees(a, l, step, ret)
      [] OTHER -> DirectCall(t, a, l, step, ret)

-----------------------------------------------------------------------------
(* Steps *)

ledgerVars == <<accounts, categories, payees, transactions, budget, schedules, ledger>>

Traced(api, payload, ok) == Append(trace, [api |-> api, payload |-> payload, ok |-> ok])

\* control passes to the handler's next await
Resume(h) ==
    /\ pc' = h.pc
    /\ carg' = h.carg
    /\ loc' = h.loc
    /\ result' = h.result
    /\ cpc' = IF h.pc = "done" THEN "none" ELSE "ensure"

\* mutant: a rejected api.sync() is caught and the method returns normally
RaiseExceptSync(api) ==
    IF pc = "init"
    THEN /\ phase' = "exited"
         /\ pc' = "exited"
         /\ cpc' = "none"
         /\ UNCHANGED <<result, carg, loc>>
    ELSE IF api = "sync" /\ pc # "sync"
    THEN /\ Resume(Handler(tool, args, loc, pc, ClientReturn(pc, loc.apiResult[1])))
         /\ UNCHANGED phase
    ELSE /\ pc' = "done"
         /\ cpc' = "none"
         /\ result' = Failure([kind |-> "DataAccess", what |-> api, token |-> None])
         /\ UNCHANGED <<phase, carg, loc>>

\* a backend call rejects: the handler's promise rejects, or main() exits
Raise(api) ==
    IF pc = "init"
    THEN /\ phase' = "exited"
         /\ pc' = "exited"
         /\ cpc' = "none"
         /\ UNCHANGED <<result, carg, loc>>
    ELSE /\ pc' = "done"
         /\ cpc' = "none"
         /\ result' = Failure([kind |-> "DataAccess", what |-> api, token |-> None])
         /\ UNCHANGED <<phase, carg, loc>>

AfterEnsure == IF pc = "sync" THEN "sync" ELSE "api"

\* init(): await api.init(...)
ApiInit ==
    /\ cpc = "api_init"
    /\ \E ok \in BOOLEAN :
        /\ trace' = Traced("init", None, ok)
        /\ IF ok
           THEN cpc' = "download" /\ UNCHANGED <<phase, pc, carg, loc, result>>
           ELSE Raise("init")
    /\ UNCHANGED <<initialized, clock, ledgerVars, tool, args, ledgerAtStart, otherVars>>

\* init(): await api.downloadBudget(...); this.initialized = true
DownloadBudget ==
    /\ cpc = "download"
    /\ \E ok \in BOOLEAN :
        IF ok
        THEN /\ initialized' = TRUE
             /\ IF pc = "init"
                THEN /\ phase' = "serving"
                     /\ pc' = "idle"
                     /\ cpc' = "none"
                     /\ tool' = "none"
                     /\ trace' = << >>
                ELSE /\ cpc' = AfterEnsure
                     /\ trace' = Traced("downloadBudget", None, TRUE)
                     /\ UNCHANGED <<phase, pc, tool>>
             /\ UNCHANGED <<carg, loc, result>>
        ELSE /\ trace' = Traced("downloadBudget", None, FALSE)
             /\ Raise("downloadBudget")
             /\ UNCHANGED <<initialized, tool>>
    /\ UNCHANGED <<clock, ledgerVars, args, ledgerAtStart, otherVars>>

\* a tools/call request (or a direct client call) arrives
Invoke(t, a) ==
    /\ phase = "serving"
    /\ pc = "idle"
    /\ Len(ledger) < MaxWrites
    /\ tool' = t
    /\ args' = a
    /\ trace' = << >>
    /\ ledgerAtStart' = ledger
    /\ IF t \in Tools /\ ~ValidArgs(t, a)
       THEN /\ pc' = "done"
            /\ cpc' = "none"
            /\ carg' = None
            /\ loc' = EmptyLoc
            /\ result' = Failure([kind |-> "Validation", what |-> t, token |-> None])
       ELSE Resume(Handler(t, a, EmptyLoc, "start", None))
    /\ UNCHANGED <<phase, initialized, clock, ledgerVars, otherVars>>

\* ensureInitialized()
EnsureInitialized ==
    /\ cpc = "ensure"
    /\ cpc' = IF initialized THEN AfterEnsure ELSE "api_init"
    /\ UNCHANGED <<phase, initialized, clock, ledgerVars, tool, args, pc, carg, loc, trace,
                   result, ledgerAtStart, otherVars>>

\* the client method's backend call
ApiCall ==
    /\ cpc = "api"
    /\ LET c == ClientApi(pc, carg)
       IN  \/ /\ trace' = Traced(c.api, c.payload, FALSE)
              /\ Raise(c.api)
              /\ UNCHANGED <<payees, ledger>>
           \/ \E r \in ApiReturns(c.api, c.payload) :
                /\ trace' = Traced(c.api, c.payload, TRUE)
                /\ ledger' = LedgerAfter(c.api, c.payload)
                /\ payees' = PayeesAfter(c.api, c.payload)
                /\ IF SyncsAfter(pc)
                   THEN /\ cpc' = "sync"
                        /\ loc' = [loc EXCEPT !.apiResult = Some(r)]
                        /\ UNCHANGED <<pc, carg, result>>
                   ELSE Resume(Handler(tool, args, loc, pc, ClientReturn(pc, r)))
                /\ UNCHANGED phase
    /\ UNCHANGED <<initialized, clock, accounts, categories, transactions, budget, schedules,
                   tool, args, ledgerAtStart, otherVars>>

\* await api.sync()
ApiSync ==
    /\ cpc = "sync"
    /\ \/ /\ trace' = Traced("sync", None, FALSE)
          /\ Raise("sync")
       \/ /\ trace' = Traced("sync", None, TRUE)
          /\ Resume(Handler(tool, args, loc, pc,
                            IF pc = "sync" THEN None
                            ELSE ClientReturn(pc, loc.apiResult[1])))
          /\ UNCHANGED phase
    /\ UNCHANGED <<initialized, clock, ledgerVars, tool, args, ledgerAtStart, otherVars>>

\* the result is delivered to the caller
Respond ==
    /\ phase = "serving"
    /\ pc = "done"
    /\ pc' = "idle"
    /\ tool' = "none"
    /\ args' = << >>
    /\ carg' = None
    /\ loc' = EmptyLoc
    /\ trace' = << >>
    /\ result' = None
    /\ ledgerAtStart' = ledger
    /\ UNCHANGED <<phase, initialized, clock, ledgerVars, cpc, otherVars>>

\* find() applied to the collection and token under check
Resolve ==
    /\ ~rFound.done
    /\ rFound' = [done |-> TRUE, value |-> FindByIdOrName(rColl, rToken)]
    /\ UNCHANGED <<rColl, rToken, serverVars, conv, ops, calls, fetches, http>>

\* Concurrent operations on one client.  The code between two awaits runs without
\* interruption; an operation is at "new" (not yet called), at an awaited backend call
\* ("api_init", "download", "api"), at "ready" (ensureInitialized() returned), or over.
opRest == <<phase, clock, ledgerVars, tool, args, pc, cpc, carg, loc, trace, result,
            ledgerAtStart, resolverVars, conv, fetches, http>>

OpMethods == {"init", "getAccounts"}

Issued(p, api) == Append(calls, [op |-> p, api |-> api, initialized |-> initialized])

\* the operation is called: init(), or a method that starts with
\* await this.ensureInitialized(); both test this.initialized and, when it is false,
\* issue api.init() at once
Begin(p) ==
    /\ p \in DOMAIN ops
    /\ ops[p].at = "new"
    /\ IF initialized
       THEN /\ ops' = [ops EXCEPT ![p].at = IF ops[p].method = "init" THEN "done"
                                            ELSE "ready"]
            /\ UNCHANGED calls
       ELSE /\ ops' = [ops EXCEPT ![p].at = "api_init"]
            /\ calls' = Issued(p, "init")
    /\ UNCHANGED <<initialized, opRest>>

\* await api.init(...) settles; init() goes on to api.downloadBudget(...)
InitSettles(p) ==
    /\ p \in DOMAIN ops
    /\ ops[p].at = "api_init"
    /\ \/ /\ ops' = [ops EXCEPT ![p].at = "download"]
          /\ calls' = Issued(p, "downloadBudget")
       \/ /\ ops' = [ops EXCEPT ![p].at = "failed"]
          /\ UNCHANGED calls
    /\ UNCHANGED <<initialized, opRest>>

\* await api.downloadBudget(...) settles; this.initialized = true
DownloadSettles(p) ==
    /\ p \in DOMAIN ops
    /\ ops[p].at = "download"
    /\ \/ /\ initialized' = TRUE
          /\ ops' = [ops EXCEPT ![p].at = IF ops[p].method = "init" THEN "done"
                                          ELSE "ready"]
       \/ /\ ops' = [ops EXCEPT ![p].at = "failed"]
          /\ UNCHANGED initialized
    /\ UNCHANGED <<calls, opRest>>

\* after await this.ensureInitialized(): the method's backend call
IssueCall(p) ==
    /\ p \in DOMAIN ops
    /\ ops[p].at = "ready"
    /\ ops' = [ops EXCEPT ![p].at = "api"]
    /\ calls' = Issued(p, ops[p].method)
    /\ UNCHANGED <<initialized, opRest>>

\* the method's backend call settles
CallSettles(p) ==
    /\ p \in DOMAIN ops
    /\ ops[p].at = "api"
    /\ \E at \in {"done", "failed"} : ops' = [ops EXCEPT ![p].at = at]
    /\ UNCHANGED <<initialized, calls, opRest>>

\* get_accounts with its balance fetches in flight together.  fetches.at[i] is the
\* state of the promise of the i-th callback of accounts.map, fetches.order the
\* order in which the promises settled.
fetchRest == <<phase, initialized, clock, ledgerVars, args, cpc, carg, loc, trace,
               ledgerAtStart, resolverVars, conv, ops, calls, http>>

\* mutant: the values in the order the promises settled
JoinedInSettlingOrder(f) == [i \in 1..Len(f.order) |-> f.value[f.order[i]][1]]

\* the array Promise.all resolves to: the value of each promise, in the order of the
\* input array
Joined(f) == [i \in DOMAIN f.at |-> f.value[i][1]]

\* the tool is called: await client.getAccounts()
InvokeAccounts ==
    /\ phase = "serving"
    /\ pc = "idle"
    /\ tool' = "get_accounts"
    /\ pc' = "getAccounts"
    /\ UNCHANGED <<result, fetches, fetchRest>>

\* client.getAccounts() settles; accounts.map(async ...) runs every callback up to its
\* await client.getAccountBalance(acc.id), and the handler awaits Promise.all
AccountsSettle ==
    /\ tool = "get_accounts"
    /\ pc = "getAccounts"
    /\ fetches = << >>
    /\ \/ /\ pc' = "done"
          /\ result' = Failure([kind |-> "DataAccess", what |-> "getAccounts", token |-> None])
          /\ UNCHANGED fetches
       \/ /\ fetches' = [at |-> [i \in 1..Len(accounts) |-> "pending"],
                          value |-> [i \in 1..Len(accounts) |-> None],
                          order |-> << >>]
          /\ IF accounts = << >>
             THEN /\ pc' = "done"
                  /\ result' = Success(AccountsOutput(accounts, << >>))
             ELSE /\ pc' = "Promise.all"
                  /\ UNCHANGED result
    /\ UNCHANGED <<tool, fetchRest>>

\* the i-th balance fetch settles.  Promise.all rejects on the first rejection and
\* resolves when the last promise is fulfilled; the other fetches go on either way.
FetchSettles(i) ==
    /\ tool = "get_accounts"
    /\ pc \in {"Promise.all", "done"}
    /\ fetches # << >>
    /\ i \in DOMAIN fetches.at
    /\ fetches.at[i] = "pending"
    /\ \E ok \in BOOLEAN :
        LET after == [at |-> [fetches.at EXCEPT ![i] = IF ok THEN "fulfilled" ELSE "rejected"],
                      value |-> [fetches.value EXCEPT ![i] =
                                    IF ok THEN Some(BalanceOf(accounts[i].id)) ELSE None],
                      order |-> Append(fetches.order, i)]
        IN  /\ fetches' = after
            /\ IF pc = "done" THEN UNCHANGED <<pc, result>>
               ELSE IF ~ok
               THEN /\ pc' = "done"
                    /\ result' = Failure([kind |-> "DataAccess", what |-> "getAccountBalance",
                                          token |-> None])
               ELSE IF \A j \in DOMAIN after.at : after.at[j] = "fulfilled"
               THEN /\ pc' = "done"
                    /\ result' = Success(AccountsOutput(accounts, Joined(after)))
               ELSE UNCHANGED <<pc, result>>
    /\ UNCHANGED <<tool, fetchRest>>

\* The HTTP endpoint (startHttpServer).  A header or query value is a sequence of
\* pieces, the piece "Bearer " standing for those seven characters; '' is << >>.
httpRest == <<serverVars, resolverVars, conv, ops, calls, fetches>>

\* s.replace('Bearer ', ''): the first occurrence removed
ReplaceBearer(s) ==
    IF \E i \in 1..Len(s) : s[i] = "Bearer "
    THEN LET k == FirstIndex({i \in 1..Len(s) : s[i] = "Bearer "})
         IN  SubSeq(s, 1, k - 1) \o SubSeq(s, k + 1, Len(s))
    ELSE s

\* tokenFromQuery || tokenFromHeader, undefined when neither is truthy
ProvidedToken(req) ==
    IF TruthyStr(req.query)
    THEN req.query
    ELSE IF IsSome(req.authorization) /\ ReplaceBearer(req.authorization[1]) # << >>
    THEN Some(ReplaceBearer(req.authorization[1]))
    ELSE None

\* mutant: only a token that is given is compared
authenticateTokenIfGiven(authToken, req) ==
    IF authToken = << >> THEN "next"
    ELSE IF ProvidedToken(req) # None /\ ProvidedToken(req)[1] # authToken THEN "401"
    ELSE "next"

\* the middleware: next() or the 401 response
authenticateToken(authToken, req) ==
    IF authToken = << >> THEN "next"
    ELSE IF ProvidedToken(req) = None \/ ProvidedToken(req)[1] # authToken THEN "401"
    ELSE "next"

\* the routes of the express app: the status answered and whether the request was
\* handed to the MCP transport (failed: mcpServer.connect or handleRequest threw)
Route(authToken, req, failed) ==
    IF req.path = "/health"
    THEN [status |-> IF req.method = "GET" THEN 200 ELSE 404, handled |-> FALSE]
    ELSE IF req.path # "/mcp" THEN [status |-> 404, handled |-> FALSE]
    ELSE IF authenticateToken(authToken, req) = "401"
    THEN [status |-> 401, handled |-> FALSE]
    ELSE IF req.method = "GET" THEN [status |-> 405, handled |-> FALSE]
    ELSE [status |-> IF failed THEN 500 ELSE 200, handled |-> TRUE]

\* a request arrives and is answered
Receive(req) ==
    /\ http.request = None
    /\ \E failed \in BOOLEAN :
        LET r == Route(http.authToken, req, failed)
        IN  http' = [http EXCEPT !.request = Some(req), !.status = r.status,
                                 !.handled = r.handled]
    /\ UNCHANGED httpRest

\* a value goes through one conversion and back through the other
Convert ==
    /\ conv.kind # "none"
    /\ conv.output = None
    /\ conv' = [conv EXCEPT !.output =
                    Some(IF conv.kind = "minor" THEN toAmount(fromAmount(conv.input))
                         ELSE fromAmount(toAmount(conv.input)))]
    /\ UNCHANGED <<serverVars, resolverVars, ops, calls, fetches, http>>

-----------------------------------------------------------------------------
(* Specifications *)

\* main(): the client is constructed and init() has begun
ServerInit ==
    /\ phase = "boot"
    /\ initialized = FALSE
    /\ clock \in Clocks
    /\ accounts = <<Acc1, Acc2>>
    /\ categories = <<Cat1, Cat2>>
    /\ payees = <<Pay1>>
    /\ transactions = Transactions1
    /\ budget = Budget1
    /\ schedules = <<Sched1>>
    /\ ledger = << >>
    /\ tool = "main"
    /\ args = << >>
    /\ pc = "init"
    /\ cpc = "api_init"
    /\ carg = None
    /\ loc = EmptyLoc
    /\ trace = << >>
    /\ result = None
    /\ ledgerAtStart = << >>

\* no resolver check is under way
ResolverIdle ==
    /\ rColl = << >>
    /\ rToken = << >>
    /\ rFound = [done |-> FALSE, value |-> None]

\* no conversion applied, no concurrent operation started, no request received
CurrencyIdle == conv = [kind |-> "none", input |-> 0, output |-> None]
OperationsIdle == ops = << >> /\ calls = << >>
FetchesIdle == fetches = << >>
HttpIdle == http = [authToken |-> None, request |-> None, status |-> 0, handled |-> FALSE]

OthersIdle == CurrencyIdle /\ OperationsIdle /\ FetchesIdle /\ HttpIdle

\* main() went through client.init() and registered the tools; no request yet
ServingInit ==
    /\ phase = "serving"
    /\ initialized = TRUE
    /\ clock = CHOOSE c \in Clocks : c.local = c.utc
    /\ categories = <<Cat1, Cat2>>
    /\ payees = <<Pay1>>
    /\ ledger = << >>
    /\ tool = "none"
    /\ args = << >>
    /\ pc = "idle"
    /\ cpc = "none"
    /\ carg = None
    /\ loc = EmptyLoc
    /\ trace = << >>
    /\ result = None
    /\ ledgerAtStart = << >>
    /\ ResolverIdle
    /\ OthersIdle

Init ==
    /\ ServerInit
    /\ ResolverIdle
    /\ OthersIdle

Next ==
    \/ ApiInit
    \/ DownloadBudget
    \/ \E t \in Tools \cup DirectMethods : \E a \in Requests(t) : Invoke(t, a)
    \/ EnsureInitialized
    \/ ApiCall
    \/ ApiSync
    \/ Respond

Spec == Init /\ [][Next]_vars

InitResolve ==
    /\ ServerInit
    /\ rColl \in ResolverCollections
    /\ rToken \in ResolverTokens
    /\ rFound = [done |-> FALSE, value |-> None]
    /\ OthersIdle

NextResolve == Resolve

SpecResolve == InitResolve /\ [][NextResolve]_vars

\* the fan-out queries over every ledger of two accounts
InitQueries ==
    /\ ServingInit
    /\ accounts \in AccountLists
    /\ transactions \in TransactionLedgers
    /\ budget = Budget1
    /\ schedules = <<Sched1>>

NextQueries ==
    \/ \E a \in SearchRequests : Invoke("search_transactions", a)
    \/ \E a \in SummaryRequests : Invoke("get_spending_summary", a)
    \/ EnsureInitialized
    \/ ApiCall
    \/ Respond

SpecQueries == InitQueries /\ [][NextQueries]_vars

\* get_budget_month over every budget month
InitBudget ==
    /\ ServingInit
    /\ accounts = <<Acc1, Acc2>>
    /\ transactions = Transactions1
    /\ budget \in BudgetMonths
    /\ schedules = <<Sched1>>

NextBudget ==
    \/ \E a \in BudgetRequests : Invoke("get_budget_month", a)
    \/ EnsureInitialized
    \/ ApiCall
    \/ Respond

SpecBudget == InitBudget /\ [][NextBudget]_vars

\* get_schedules over every schedule list
InitSchedules ==
    /\ ServingInit
    /\ accounts = <<Acc1, Acc2>>
    /\ transactions = Transactions1
    /\ budget = Budget1
    /\ schedules \in ScheduleLists

NextSchedules ==
    \/ Invoke("get_schedules", << >>)
    \/ EnsureInitialized
    \/ ApiCall
    \/ Respond

SpecSchedules == InitSchedules /\ [][NextSchedules]_vars

\* the conversions on their own: every minor-unit integer and every decimal (in
\* thousandths) up to the bound
InitCurrency ==
    /\ ServerInit
    /\ ResolverIdle
    /\ conv \in [kind : {"minor", "decimal"}, input : -MaxAmount..MaxAmount, output : {None}]
    /\ OperationsIdle
    /\ FetchesIdle
    /\ HttpIdle

NextCurrency == Convert

SpecCurrency == InitCurrency /\ [][NextCurrency]_vars

\* a constructed client (new ActualBudgetClient(config)) on which up to MaxOps
\* operations are called, their steps in any interleaving
InitOperations ==
    /\ phase = "boot"
    /\ initialized = FALSE
    /\ clock = CHOOSE c \in Clocks : c.local = c.utc
    /\ accounts = <<Acc1, Acc2>>
    /\ categories = <<Cat1, Cat2>>
    /\ payees = <<Pay1>>
    /\ transactions = Transactions1
    /\ budget = Budget1
    /\ schedules = <<Sched1>>
    /\ ledger = << >>
    /\ tool = "none"
    /\ args = << >>
    /\ pc = "idle"
    /\ cpc = "none"
    /\ carg = None
    /\ loc = EmptyLoc
    /\ trace = << >>
    /\ result = None
    /\ ledgerAtStart = << >>
    /\ ResolverIdle
    /\ CurrencyIdle
    /\ FetchesIdle
    /\ HttpIdle
    /\ ops \in UNION {[1..n -> [method : OpMethods, at : {"new"}]] : n \in 1..MaxOps}
    /\ calls = << >>

NextOperations ==
    \E p \in 1..MaxOps :
        \/ Begin(p)
        \/ InitSettles(p)
        \/ DownloadSettles(p)
        \/ IssueCall(p)
        \/ CallSettles(p)

SpecOperations == InitOperations /\ [][NextOperations]_vars

\* account lists of up to MaxRecords accounts, in every order, open or closed, on or
\* off budget
AccountOrders ==
    {l \in Arrangements({Acc1, [Acc1 EXCEPT !.closed = TRUE], Acc2,
                         [Acc2 EXCEPT !.offbudget = TRUE],
                         [id |-> <<"a", "3">>, name |-> <<"C", "d">>, closed |-> FALSE,
                          offbudget |-> FALSE]}, MaxRecords) : UniqueIds(l)}

\* get_accounts over every account list, its fetches settling in any order
InitAccounts ==
    /\ ServingInit
    /\ accounts \in AccountOrders
    /\ transactions = Transactions1
    /\ budget = Budget1
    /\ schedules = <<Sched1>>

NextAccounts ==
    \/ InvokeAccounts
    \/ AccountsSettle
    \/ \E i \in DOMAIN accounts : FetchSettles(i)

SpecAccounts == InitAccounts /\ [][NextAccounts]_vars

\* the configured token: MCP_AUTH_TOKEN || ''
AuthTokens == {<< >>, <<"s">>}

\* tokens in the query: none, '', the token, another, an array of the token
QueryTokens == {None, Some(<< >>), Some(<<"s">>), Some(<<"x">>), Some(<<"[", "s", "]">>)}

AuthorizationHeaders ==
    {None, Some(<<"Bearer ", "s">>), Some(<<"Bearer ", "x">>), Some(<<"s">>),
     Some(<<"Bearer ">>), Some(<<"s", "Bearer ">>), Some(<<"Bearer ", "Bearer ", "s">>),
     Some(<<"Basic ", "s">>)}

HttpRequests ==
    [method : {"GET", "POST"}, path : {"/health", "/mcp", "/"}, query : QueryTokens,
     authorization : AuthorizationHeaders]

\* the HTTP server listening, with or without a configured token
InitHttp ==
    /\ ServerInit
    /\ ResolverIdle
    /\ CurrencyIdle
    /\ OperationsIdle
    /\ FetchesIdle
    /\ http \in [authToken : AuthTokens, request : {None}, status : {0}, handled : {FALSE}]

NextHttp == \E req \in HttpRequests : Receive(req)

SpecHttp == InitHttp /\ [][NextHttp]_vars

-----------------------------------------------------------------------------
(* Properties *)

Done == pc = "done"
Failed == Done /\ result[1].isError
Succeeded == Done /\ ~result[1].isError

IsWrite(e) == e.api \in WriteApis
IsOkWrite(e) == e.api \in WriteApis /\ e.ok
IsSync(e) == e.api = "sync"

\* no record of coll matches the token, by id or by name ignoring case
MatchesNone(coll, token) ==
    \A i \in 1..Len(coll) :
        coll[i].id # token /\ toLowerCase(coll[i].name) # toLowerCase(token)

\* the backend call at position i completed
CompletedAt(i) == i \in 1..Len(trace) /\ trace[i].ok

\* C1: a client method that made its mutation is either still awaiting api.sync()
\* or has issued api.sync() right after the mutation; it has returned (the
\* handler went on, or the invocation succeeded) only if that sync completed.
C1_MutationThenSync ==
    \A i \in 1..Len(trace) :
        IsOkWrite(trace[i]) =>
            IF i = Len(trace)
            THEN cpc = "sync" /\ pc \in MutatingMethods
            ELSE /\ IsSync(trace[i + 1])
                 /\ ~trace[i + 1].ok => (Failed /\ i + 1 = Len(trace))

C1_Witness ==
    /\ Succeeded
    /\ tool = "create_schedule"
    /\ Len(trace) = 6
    /\ trace[3].api = "createPayee" /\ trace[4].api = "sync"
    /\ trace[5].api = "createSchedule" /\ trace[6].api = "sync"

\* C2 (as claimed): whenever some record's id equals the token, find() returns
\* that record, whatever the names of the records before it.
C2_IdHasPriority ==
    rFound.done =>
        \A i \in 1..Len(rColl) : rColl[i].id = rToken => rFound.value = Some(rColl[i])

\* C3: when no record's id equals the token, find() returns the first record
\* whose name equals the token ignoring case, and undefined when there is none.
C3_FirstNameMatch ==
    (rFound.done /\ \A i \in 1..Len(rColl) : rColl[i].id # rToken) =>
        LET S == {i \in 1..Len(rColl) : toLowerCase(rColl[i].name) = toLowerCase(rToken)}
        IN  IF S = {} THEN rFound.value = None
            ELSE \E i \in S : /\ \A j \in S : i <= j
                              /\ rFound.value = Some(rColl[i])

C3_Witness ==
    /\ rFound.done
    /\ Len(rColl) = 2
    /\ rColl[1].id # rToken /\ rColl[2].id # rToken
    /\ rColl[1].name # rToken /\ rColl[2].name # rToken
    /\ rColl[1].name # rColl[2].name
    /\ toLowerCase(rColl[1].name) = toLowerCase(rToken)
    /\ toLowerCase(rColl[2].name) = toLowerCase(rToken)
    /\ rFound.value = Some(rColl[1])

\* C4: set_budget_amount whose category token matches no category never calls
\* setBudgetAmount or sync, leaves the ledger as it was, and ends in an error;
\* once the category list was read, the error is "not found" naming the token.
C4_UnresolvedCategoryNoWrite ==
    (tool = "set_budget_amount" /\ ValidArgs(tool, args)
        /\ MatchesNone(categories, args.category[1])) =>
        /\ \A i \in 1..Len(trace) : trace[i].api \notin {"setBudgetAmount", "sync"}
        /\ ledger = ledgerAtStart
        /\ Done => /\ Failed
                   /\ CompletedAt(1) =>
                        result[1].error = NotFound("Category", args.category[1])

C4_Witness ==
    /\ tool = "set_budget_amount"
    /\ Failed
    /\ args.category = Some(<<"z">>)
    /\ result[1].error = NotFound("Category", <<"z">>)

AccountTools == {"add_transaction", "get_account_balance", "get_transactions",
                 "create_schedule"}

\* C5: in the four tools that require an account, a token matching no account
\* ends the invocation in an error ("not found" naming the token once the
\* account list was read), with no output, no backend write and no sync.
C5_UnresolvedAccountAborts ==
    (tool \in AccountTools /\ ValidArgs(tool, args)
        /\ MatchesNone(accounts, args.account[1])) =>
        /\ \A i \in 1..Len(trace) : ~IsWrite(trace[i]) /\ ~IsSync(trace[i])
        /\ Len(trace) <= 1
        /\ ledger = ledgerAtStart
        /\ Done => /\ Failed
                   /\ result[1].output = None
                   /\ CompletedAt(1) =>
                        result[1].error = NotFound("Account", args.account[1])

C5_Witness ==
    /\ tool = "create_schedule"
    /\ Failed
    /\ args.account = Some(<<"z">>)
    /\ args.payee = Some(<<"N", "w">>)
    /\ result[1].error = NotFound("Account", <<"z">>)

\* the category a write of add_transaction / update_transaction carries
CategoryOfWrite(e) ==
    IF e.api = "importTransactions" THEN e.payload.transactions[1].category
    ELSE Get(e.payload.fields, "category")

\* C6: in add_transaction and update_transaction a supplied category token that
\* matches no category raises no error of its own; the write is submitted once,
\* without a category, and when every backend call completes the invocation
\* reports success.
C6_UnresolvedCategoryOmitted ==
    (tool \in {"add_transaction", "update_transaction"} /\ ValidArgs(tool, args)
        /\ IsSome(args.category) /\ MatchesNone(categories, args.category[1])
        /\ (tool = "add_transaction" => ~MatchesNone(accounts, args.account[1]))) =>
        /\ Cardinality({i \in 1..Len(trace) : IsWrite(trace[i])}) <= 1
        /\ \A i \in 1..Len(trace) : IsWrite(trace[i]) => CategoryOfWrite(trace[i]) = None
        /\ Failed => result[1].error.kind = "DataAccess"
        /\ (Done /\ \A i \in 1..Len(trace) : trace[i].ok) =>
              /\ Succeeded
              /\ result[1].output.success
              /\ Cardinality({i \in 1..Len(trace) : IsWrite(trace[i])}) = 1

C6_Witness ==
    /\ tool = "add_transaction"
    /\ args.category = Some(<<"z">>)
    /\ Succeeded
    /\ Len(trace) = 4
    /\ trace[3].api = "importTransactions"
    /\ trace[3].payload.transactions[1].category = None

UpdateFields == {"amount", "payee_name", "notes", "date", "cleared"}

\* C7: the payload update_transaction sends holds exactly the supplied fields
\* among amount (in minor units, rounded half up), payee_name, notes, date and
\* cleared, and holds category, as the resolved id, exactly when a category
\* was supplied and resolved.
C7_UpdatePayloadExact ==
    \A i \in 1..Len(trace) :
        (tool = "update_transaction" /\ trace[i].api = "updateTransaction") =>
            LET f == trace[i].payload.fields
            IN  /\ trace[i].payload.id = args.id[1]
                /\ DOMAIN f \ {"category"} = {k \in UpdateFields : args[k] # None}
                /\ \A k \in (DOMAIN f) \ {"category", "amount"} : f[k] = args[k][1]
                /\ "amount" \in DOMAIN f =>
                      /\ 10 * f.amount - 5 <= args.amount[1]
                      /\ args.amount[1] < 10 * f.amount + 5
                /\ "category" \in DOMAIN f <=>
                      (TruthyStr(args.category)
                        /\ ~MatchesNone(categories, args.category[1]))
                /\ "category" \in DOMAIN f =>
                      \E j \in 1..Len(categories) :
                          /\ categories[j].id = f.category
                          /\ \/ categories[j].id = args.category[1]
                             \/ toLowerCase(categories[j].name)
                                    = toLowerCase(args.category[1])

C7_Witness ==
    /\ tool = "update_transaction"
    /\ Succeeded
    /\ args.category = Some(<<"z">>)
    /\ \E i \in 1..Len(trace) :
        /\ trace[i].api = "updateTransaction"
        /\ DOMAIN trace[i].payload.fields = {"amount", "notes", "cleared"}
        /\ trace[i].payload.fields.amount = 0
        /\ trace[i].payload.fields.notes = << >>
        /\ trace[i].payload.fields.cleared = FALSE

\* the writes this invocation's completed backend calls applied, in order
AppliedWrites ==
    LET ok == SelectSeq(trace, IsOkWrite)
    IN  [i \in 1..Len(ok) |-> [api |-> ok[i].api, key |-> WriteKey(ok[i].api, ok[i].payload)]]

\* C8: when a mutation completed and the api.sync() after it rejected, the
\* invocation has ended in failure, with no output, and the mutation is still
\* in the ledger.
C8_SyncFailureReported ==
    \A i \in 1..Len(trace) :
        (i > 1 /\ IsSync(trace[i]) /\ ~trace[i].ok /\ IsOkWrite(trace[i - 1])) =>
            /\ Failed
            /\ result[1].output = None
            /\ i = Len(trace)
            /\ ledger = ledgerAtStart \o AppliedWrites
            /\ ledger[Len(ledger)] =
                  [api |-> trace[i - 1].api,
                   key |-> WriteKey(trace[i - 1].api, trace[i - 1].payload)]

C8_Witness ==
    /\ tool = "delete_transaction"
    /\ Failed
    /\ Len(trace) = 2
    /\ trace[1].api = "deleteTransaction" /\ trace[1].ok
    /\ trace[2].api = "sync" /\ ~trace[2].ok
    /\ Len(ledger) = Len(ledgerAtStart) + 1

\* C9 (as claimed): when an invocation ends in failure, the only writes of it
\* that remain applied are those whose own api.sync() rejected.
C9_NoPartialCommit ==
    Failed =>
        \A i \in 1..Len(trace) :
            IsOkWrite(trace[i]) =>
                (i < Len(trace) /\ IsSync(trace[i + 1]) /\ ~trace[i + 1].ok)

\* the request breaks the declared contract of its tool
ContractBroken(t, a) ==
    \/ \E f \in DOMAIN a : a[f] = WrongType
    \/ \E f \in InputSchema(t).required : a[f] = None
    \/ /\ t = "create_schedule"
       /\ \/ a.frequency \notin {Some(<<"daily">>), Some(<<"weekly">>), Some(<<"monthly">>),
                                 Some(<<"yearly">>)}
          \/ a.end_mode \notin {None, Some(<<"never">>), Some(<<"after_n_occurrences">>),
                                Some(<<"on_date">>)}

\* C10: a request that breaks its tool's input contract ends in a validation
\* error with no backend call made and the ledger as it was.
C10_InvalidRejectedFirst ==
    (tool \in Tools /\ ContractBroken(tool, args)) =>
        /\ Failed
        /\ result[1].error.kind = "Validation"
        /\ trace = << >>
        /\ ledger = ledgerAtStart

C10_Witness ==
    /\ tool = "create_schedule"
    /\ args.frequency = Some(<<"hourly">>)
    /\ Failed
    /\ result[1].error.kind = "Validation"

-----------------------------------------------------------------------------
(* The fan-out queries: search_transactions and get_spending_summary *)

SearchDone == tool = "search_transactions" /\ Succeeded
SummaryDone == tool = "get_spending_summary" /\ Succeeded

\* the transactions search_transactions returned
Results == result[1].output.transactions

\* every transaction of the ledger, with the id of its account
LedgerEntries ==
    UNION {{[txn |-> transactions[k][i], account |-> k] : i \in 1..Len(transactions[k])} :
              k \in DOMAIN transactions}

AccountOf(id) == accounts[CHOOSE i \in 1..Len(accounts) : accounts[i].id = id]

\* the accounts a tool is to read
EligibleAccounts(t) ==
    {accounts[i].id : i \in {j \in 1..Len(accounts) :
        /\ ~accounts[j].closed
        /\ t = "get_spending_summary" => ~accounts[j].offbudget}}

EligibleEntries(t) == {e \in LedgerEntries : e.account \in EligibleAccounts(t)}

\* the accounts whose transactions this invocation has asked for
FetchedAccounts ==
    {trace[i].payload.accountId : i \in {j \in 1..Len(trace) : trace[j].api = "getTransactions"}}

\* the sum of the absolute amounts of a set of ledger entries
RECURSIVE SumAbsAmounts(_)
SumAbsAmounts(S) ==
    IF S = {} THEN 0
    ELSE LET x == CHOOSE y \in S : TRUE IN Abs(x.txn.amount) + SumAbsAmounts(S \ {x})

\* the display name of a transaction's payee, if it has one
PayeeNameOf(t) == IF IsSome(t.payee) THEN MapGet(payees, t.payee[1]) ELSE None

\* the transaction passes every filter the request carries
SatisfiesSupplied(a, t) ==
    /\ IsSome(a.payee) =>
          /\ IsSome(PayeeNameOf(t))
          /\ Includes(toLowerCase(PayeeNameOf(t)[1]), toLowerCase(a.payee[1]))
    /\ IsSome(a.notes) =>
          /\ IsSome(t.notes)
          /\ Includes(toLowerCase(t.notes[1]), toLowerCase(a.notes[1]))
    /\ IsSome(a.min_amount) => Abs(t.amount) >= toAmount(a.min_amount[1])
    /\ IsSome(a.max_amount) => Abs(t.amount) <= toAmount(a.max_amount[1])

NoFilter(a) ==
    a.payee = None /\ a.notes = None /\ a.min_amount = None /\ a.max_amount = None

\* C11: every transaction search_transactions returns passes all the filters the
\* request supplies (payee name contains the payee term ignoring case, notes contain
\* the notes term ignoring case, absolute amount within min_amount and max_amount);
\* with no filter and no limit every fetched transaction is returned.
C11_SuppliedFiltersAllHold ==
    SearchDone =>
        /\ \A i \in 1..Len(Results) :
              \E e \in LedgerEntries :
                  e.txn.id = Results[i].id /\ SatisfiesSupplied(args, e.txn)
        /\ (NoFilter(args) /\ args.limit = None) =>
              {Results[i].id : i \in 1..Len(Results)}
                  = {e.txn.id : e \in EligibleEntries(tool)}

\* C12: the results of search_transactions are in date-descending order: no result
\* is dated before the one that follows it.
C12_DateDescending ==
    SearchDone =>
        \A i \in 1..(Len(Results) - 1) :
            localeCompare(Results[i].date, Results[i + 1].date) >= 0

\* two results, from transactions that were fetched oldest first
C12_Witness ==
    /\ SearchDone
    /\ Len(Results) >= 2
    /\ localeCompare(loc.allTransactions[1].date, loc.allTransactions[2].date) < 0
    /\ localeCompare(Results[1].date, Results[2].date) > 0

\* C13: search_transactions returns at most `limit` results (at most 50 when limit is
\* omitted), they are the leading entries of the date-descending filtered list, and
\* total_count is their number.
C13_AtMostLimit ==
    SearchDone =>
        LET full == SortByDate(SearchFiltered(args, loc))
            cap == IF IsSome(args.limit) THEN args.limit[1] ELSE 50
        IN  /\ Len(Results) <= cap
            /\ Len(Results) <= Len(full)
            /\ \A i \in 1..Len(Results) : i <= Len(full) => Results[i].id = full[i].id
            /\ result[1].output.total_count = Len(Results)

ByCategory == result[1].output.by_category

\* the bucket an expense belongs to: its category's name, "Uncategorized" without one
ExpectedBucket(t) ==
    IF IsSome(t.category) /\ \E i \in 1..Len(categories) : categories[i].id = t.category[1]
    THEN categories[CHOOSE i \in 1..Len(categories) : categories[i].id = t.category[1]].name
    ELSE <<"Uncategorized">>

Expenses == {e \in EligibleEntries("get_spending_summary") : e.txn.amount < 0}
Incomes == {e \in EligibleEntries("get_spending_summary") : e.txn.amount >= 0}

\* C15: in a spending summary each transaction with a negative amount counts, by its
\* absolute value, in total_spent and in the one bucket named after its category
\* ("Uncategorized" without a category id); each other transaction counts in
\* total_income only; net is total_income less total_spent.
C15_PartitionBySign ==
    SummaryDone =>
        LET out == result[1].output
            buckets == {ExpectedBucket(e.txn) : e \in Expenses}
        IN  /\ out.total_spent = fromAmount(SumAbsAmounts(Expenses))
            /\ out.total_income = fromAmount(SumAbsAmounts(Incomes))
            /\ out.net = out.total_income - out.total_spent
            /\ {ByCategory[i].category : i \in 1..Len(ByCategory)} = buckets
            /\ Len(ByCategory) = Cardinality(buckets)
            /\ \A i \in 1..Len(ByCategory) :
                  ByCategory[i].amount =
                      fromAmount(SumAbsAmounts(
                          {e \in Expenses : ExpectedBucket(e.txn) = ByCategory[i].category}))

\* an expense with a category, one without, and an income, all counted
C15_Witness ==
    /\ SummaryDone
    /\ Cardinality(Expenses) >= 2
    /\ Incomes # {}
    /\ Len(ByCategory) = 2
    /\ \E e \in Expenses : e.txn.category = None
    /\ result[1].output.total_income > 0

\* C16: each percentage of a spending summary is its category's total over total
\* spent, times 100, rounded to the nearest integer (half up), each on its own; it
\* is 0 when total spent is 0.
C16_PercentageRounded ==
    SummaryDone =>
        LET total == result[1].output.total_spent
        IN  \A i \in 1..Len(ByCategory) :
                LET pct == ByCategory[i].percentage
                    amount == ByCategory[i].amount
                IN  IF total = 0 THEN pct = 0
                    ELSE /\ (2 * pct - 1) * total <= 200 * amount
                         /\ 200 * amount < (2 * pct + 1) * total

\* 35.00 and 5.00 of 40.00: 87.5 and 12.5 are reported as 88 and 13
C16_Witness ==
    /\ SummaryDone
    /\ Len(ByCategory) = 2
    /\ ByCategory[1].percentage = 88
    /\ ByCategory[2].percentage = 13

-----------------------------------------------------------------------------
(* get_budget_month *)

BudgetDone == tool = "get_budget_month" /\ Succeeded

\* the sum of the absolute spent of the categories at the indexes I
RECURSIVE AbsSpentOf(_, _)
AbsSpentOf(cats, I) ==
    IF I = {} THEN 0
    ELSE LET i == CHOOSE k \in I : TRUE
         IN  Abs(cats[i].spent) + AbsSpentOf(cats, I \ {i})

\* the sum of the reported spent of the groups at the indexes I
RECURSIVE ReportedSpentOf(_, _)
ReportedSpentOf(groups, I) ==
    IF I = {} THEN 0
    ELSE LET i == CHOOSE k \in I : TRUE
         IN  groups[i].spent + ReportedSpentOf(groups, I \ {i})

\* C17: get_budget_month reports for each group the sum of the absolute spent of its
\* categories, whatever spent figure the data source gave for the group; total_spent
\* is the sum of the groups' reported spent; no reported spent is negative and every
\* balance is the data source's balance, sign included.
C17_SpentRecomputed ==
    BudgetDone =>
        LET out == result[1].output
            raw == budget.categoryGroups
        IN  /\ Len(out.category_groups) = Len(raw)
            /\ \A g \in 1..Len(raw) :
                  LET og == out.category_groups[g]
                  IN  /\ og.spent = fromAmount(AbsSpentOf(raw[g].categories,
                                                          1..Len(raw[g].categories)))
                      /\ og.spent >= 0
                      /\ og.balance = fromAmount(raw[g].balance)
                      /\ Len(og.categories) = Len(raw[g].categories)
                      /\ \A c \in 1..Len(raw[g].categories) :
                            /\ og.categories[c].spent >= 0
                            /\ og.categories[c].spent = fromAmount(Abs(raw[g].categories[c].spent))
                            /\ og.categories[c].balance = fromAmount(raw[g].categories[c].balance)
            /\ out.total_spent =
                  ReportedSpentOf(out.category_groups, 1..Len(out.category_groups))

\* categories that spent -5.00 and -3.00 in a group whose own figure is 0.77: the
\* group is reported with spent 8.00 and its negative balance
C17_Witness ==
    /\ BudgetDone
    /\ \E g \in 1..Len(budget.categoryGroups) :
          /\ {budget.categoryGroups[g].categories[c].spent :
                 c \in 1..Len(budget.categoryGroups[g].categories)} = {-500, -300}
          /\ budget.categoryGroups[g].spent = 77
          /\ result[1].output.category_groups[g].spent = 8000
          /\ result[1].output.category_groups[g].balance < 0

-----------------------------------------------------------------------------
(* create_schedule: the payee *)

\* the positions of the trace at which a backend call was issued
CallsOf(api) == {i \in 1..Len(trace) : trace[i].api = api}

\* the payees before this invocation created any
PayeesAtStart ==
    IF \E i \in CallsOf("createPayee") : trace[i].ok
    THEN SubSeq(payees, 1, Len(payees) - 1)
    ELSE payees

\* the existing payees whose name is the requested one, ignoring case
NamedLike(name) ==
    {i \in 1..Len(PayeesAtStart) : toLowerCase(PayeesAtStart[i].name) = toLowerCase(name)}

\* the schedule was submitted with exactly this payee
SubmittedWithPayee(p) ==
    \A i \in CallsOf("createSchedule") : trace[i].payload.payee = p

\* C18 as stated: whenever a payee is supplied, create_schedule uses the existing
\* payee of that name (ignoring case) without creating one, or else creates exactly
\* one payee of that name and uses its id; without a payee it creates none; no other
\* tool creates a payee.
C18_FindOrCreateSupplied ==
    /\ (tool = "create_schedule" /\ Succeeded) =>
          IF IsSome(args.payee)
          THEN IF NamedLike(args.payee[1]) # {}
               THEN /\ CallsOf("createPayee") = {}
                    /\ \E i \in NamedLike(args.payee[1]) :
                          SubmittedWithPayee(Some(PayeesAtStart[i].id))
               ELSE /\ Cardinality(CallsOf("createPayee")) = 1
                    /\ \A i \in CallsOf("createPayee") : trace[i].payload.name = args.payee[1]
                    /\ SubmittedWithPayee(Some(payees[Len(payees)].id))
          ELSE CallsOf("createPayee") = {}
    /\ (tool \in Tools \ {"create_schedule"}) => CallsOf("createPayee") = {}

\* C18, amended: the same for a payee name that is not the empty string; an empty
\* payee name is treated as no payee: none is looked up, none is created and the
\* schedule is submitted without a payee.
C18_FindOrCreateNamed ==
    /\ (tool = "create_schedule" /\ CallsOf("createSchedule") # {}) =>
          IF TruthyStr(args.payee)
          THEN IF NamedLike(args.payee[1]) # {}
               THEN /\ CallsOf("createPayee") = {}
                    /\ \E i \in NamedLike(args.payee[1]) :
                          SubmittedWithPayee(Some(PayeesAtStart[i].id))
               ELSE /\ Cardinality(CallsOf("createPayee")) = 1
                    /\ \A i \in CallsOf("createPayee") :
                          trace[i].ok /\ trace[i].payload.name = args.payee[1]
                    /\ SubmittedWithPayee(Some(payees[Len(payees)].id))
                    /\ payees[Len(payees)].name = args.payee[1]
          ELSE /\ CallsOf("createPayee") = {}
               /\ CallsOf("getPayees") = {}
               /\ SubmittedWithPayee(None)
    /\ tool = "create_schedule" => Cardinality(CallsOf("createPayee")) <= 1
    /\ (tool \in Tools \ {"create_schedule"}) => CallsOf("createPayee") = {}

\* a schedule created for the new payee 'Nw', which was created once and is used
C18_Witness ==
    /\ tool = "create_schedule" /\ Succeeded
    /\ args.payee = Some(<<"N", "w">>)
    /\ NamedLike(<<"N", "w">>) = {}
    /\ Cardinality(CallsOf("createPayee")) = 1
    /\ SubmittedWithPayee(Some(payees[Len(payees)].id))

-----------------------------------------------------------------------------
(* get_schedules *)

SchedulesDone == tool = "get_schedules" /\ Succeeded

\* the schedule has a recurrence descriptor: an object that carries a frequency
HasDescriptor(sch) == sch.date.kind = "object" /\ IsSome(sch.date.frequency)

\* C19: get_schedules reports a schedule that has a recurrence descriptor with the
\* bare frequency name when its interval is 1 and with "every {interval} {frequency}"
\* for every other interval value; a schedule without a descriptor has no frequency.
C19_FrequencyString ==
    SchedulesDone =>
        \A i \in 1..Len(schedules) :
            LET sch == schedules[i]
                reported == result[1].output.schedules[i].frequency
            IN  IF HasDescriptor(sch)
                THEN IsSome(sch.date.interval) =>
                        reported =
                            IF sch.date.interval[1] = 1 THEN Some(sch.date.frequency[1])
                            ELSE Some(<<"every", Digit(sch.date.interval[1])>>
                                      \o sch.date.frequency[1])
                ELSE reported = None

-----------------------------------------------------------------------------
(* Results *)

-----------------------------------------------------------------------------
(* Currency *)

\* C21: converting a minor-unit integer to a decimal and back gives the integer, and
\* converting a decimal with at most two fractional digits (a multiple of ten
\* thousandths) to minor units and back gives the decimal.
C21_RoundTrips ==
    IsSome(conv.output) =>
        /\ conv.kind = "minor" => conv.output[1] = conv.input
        /\ conv.kind = "decimal" /\ conv.input % 10 = 0 => conv.output[1] = conv.input

C21_Witness ==
    /\ IsSome(conv.output)
    /\ conv.kind = "decimal"
    /\ conv.input = -20
    /\ conv.output[1] = -20

-----------------------------------------------------------------------------
(* add_transaction *)

AddInvoked == tool = "add_transaction"

\* the account the resolver gives for the request's account token
ResolvedAccount == FindByIdOrName(accounts, args.account[1])

\* the minor-unit integer nearest to a decimal given in thousandths (halves go up)
NearestMinor(d) ==
    CHOOSE m \in ((d \div 10) - 1)..((d \div 10) + 1) : 10 * m - 5 <= d /\ d < 10 * m + 5

\* C22: add_transaction with a resolvable account submits at most one import, of exactly
\* one transaction, for the resolved account id and with the supplied amount in minor
\* units; when it succeeds the import was made and the message states the absolute
\* amount, the direction (income when amount >= 0, else expense) and the account name.
C22_SubmitsOneConverted ==
    AddInvoked =>
        /\ Cardinality(CallsOf("importTransactions")) <= 1
        /\ \A i \in CallsOf("importTransactions") :
              /\ ResolvedAccount # None
              /\ trace[i].payload.accountId = ResolvedAccount[1].id
              /\ Len(trace[i].payload.transactions) = 1
              /\ trace[i].payload.transactions[1].account = ResolvedAccount[1].id
              /\ trace[i].payload.transactions[1].amount = NearestMinor(args.amount[1])
        /\ Succeeded =>
              /\ \E i \in CallsOf("importTransactions") : trace[i].ok
              /\ result[1].output.message =
                    [abs_amount |-> IF args.amount[1] < 0 THEN -args.amount[1]
                                    ELSE args.amount[1],
                     direction |-> IF args.amount[1] >= 0 THEN "income" ELSE "expense",
                     account_name |-> ResolvedAccount[1].name]

C22_Witness ==
    /\ AddInvoked
    /\ Succeeded
    /\ args.amount[1] = -35000
    /\ \E i \in CallsOf("importTransactions") :
          trace[i].payload.transactions[1].amount = -3500
    /\ result[1].output.message.direction = "expense"
    /\ result[1].output.message.abs_amount = 35000

\* the writes this invocation applied to the ledger
NewWrites == {i \in 1..Len(ledger) : i > Len(ledgerAtStart)}

\* C23: add_transaction called with transfer_to creates a transfer: once it succeeded,
\* a transaction was written to the source account and one to the transfer_to account.
C23_TransferBothAccounts ==
    (AddInvoked /\ Succeeded /\ "transfer_to" \in DOMAIN args) =>
        LET dest == FindByIdOrName(accounts, args.transfer_to[1])
        IN  /\ dest # None
            /\ \E i \in NewWrites : ledger[i].key = ResolvedAccount[1].id
            /\ \E i \in NewWrites : ledger[i].key = dest[1].id

-----------------------------------------------------------------------------
(* Default dates *)

\* C24: the date used when the caller omits one is the host's local calendar date at
\* the moment of the call: add_transaction without a date submits a transaction dated
\* with the local date.
C24_DefaultDateIsLocal ==
    (AddInvoked /\ ValidArgs(tool, args) /\ args.date = None) =>
        \A i \in CallsOf("importTransactions") :
            trace[i].payload.transactions[1].date = clock.local

\* C25: get_spending_summary without start_date and end_date reports the window from
\* the first day of the current calendar month to today.
C25_MonthToDateWindow ==
    (SummaryDone /\ args.start_date = None /\ args.end_date = None) =>
        /\ result[1].output.period.start = <<clock.local[1], clock.local[2], "01">>
        /\ result[1].output.period.end = clock.local

-----------------------------------------------------------------------------
(* Initialisation under concurrent operations *)

IssuedCalls(api) == {i \in 1..Len(calls) : calls[i].api = api}

\* C26: whatever the interleaving of the operations, api.init and downloadBudget are
\* each issued at most once, every data-access call is issued with the client
\* initialised, and no api.init is issued by an init() that found the client initialised.
C26_InitialisedAtMostOnce ==
    /\ Cardinality(IssuedCalls("init")) <= 1
    /\ Cardinality(IssuedCalls("downloadBudget")) <= 1
    /\ \A i \in IssuedCalls("getAccounts") : calls[i].initialized
    /\ \A i \in IssuedCalls("init") : ~calls[i].initialized

-----------------------------------------------------------------------------
(* add_transaction: the reported id *)

\* what api.importTransactions returned to this invocation
ImportResult == loc.apiResult[1]

\* C27: when add_transaction reports success, transaction_id is the id of a
\* transaction the import of this invocation added.
C27_ReportedIdWasAdded ==
    (AddInvoked /\ Succeeded) =>
        /\ result[1].output.success
        /\ result[1].output.transaction_id \in Elements(ImportResult.added)

-----------------------------------------------------------------------------
(* get_spending_summary: the buckets *)

\* the sum of the amounts of the entries of a by_category list
SumOfAmounts(entries) ==
    LET sum[n \in 0..Len(entries)] == IF n = 0 THEN 0 ELSE sum[n - 1] + entries[n].amount
    IN  sum[Len(entries)]

\* C28: in a spending summary the by_category amounts add up to total spent, no two
\* entries have the same name, and the names are those of the buckets that received
\* an expense (an expense whose category id is not in the category list counts in
\* "Uncategorized").
C28_BucketsSumToSpent ==
    SummaryDone =>
        /\ SumOfAmounts(ByCategory) = result[1].output.total_spent
        /\ \A i, j \in 1..Len(ByCategory) :
              ByCategory[i].category = ByCategory[j].category => i = j
        /\ \A e \in Expenses :
              \E i \in 1..Len(ByCategory) : ByCategory[i].category = ExpectedBucket(e.txn)
        /\ \A i \in 1..Len(ByCategory) :
              \E e \in Expenses : ByCategory[i].category = ExpectedBucket(e.txn)

\* two expenses share the bucket "Uncategorized", one of them by an unknown category id
C28_Witness ==
    /\ SummaryDone
    /\ Len(ByCategory) = 2
    /\ \E e, f \in Expenses :
          /\ e # f
          /\ e.txn.category = None
          /\ IsSome(f.txn.category)
          /\ ExpectedBucket(f.txn) = <<"Uncategorized">>
    /\ \E i \in 1..Len(ByCategory) :
          /\ ByCategory[i].category = <<"Uncategorized">>
          /\ ByCategory[i].amount = fromAmount(10400)

-----------------------------------------------------------------------------
(* get_accounts: the join *)

AccountsInvoked == tool = "get_accounts" /\ fetches # << >>

Listed == result[1].output.accounts

\* C29: the balance fetches of get_accounts are in flight together and joined before
\* the response: in whatever order they settle, a successful result is given only when
\* every fetch was fulfilled, and it lists the accounts of the account list, in its
\* order, each with its own balance in decimal; once a fetch is rejected the result
\* is a failure without a list.
C29_JoinedInListOrder ==
    (AccountsInvoked /\ Done) =>
        /\ Succeeded =>
              /\ \A i \in DOMAIN fetches.at : fetches.at[i] = "fulfilled"
              /\ Len(Listed) = Len(accounts)
              /\ \A i \in 1..Len(accounts) :
                    /\ Listed[i].id = accounts[i].id
                    /\ Listed[i].name = accounts[i].name
                    /\ Listed[i].balance = 10 * BalanceOf(accounts[i].id)
        /\ (\E i \in DOMAIN fetches.at : fetches.at[i] = "rejected") =>
              /\ Failed
              /\ result[1].output = None

\* the second fetch settled before the first, and both accounts are listed in order
C29_Witness ==
    /\ AccountsInvoked
    /\ Succeeded
    /\ fetches.order = <<2, 1>>
    /\ Len(Listed) = 2
    /\ Listed[1].balance # Listed[2].balance

-----------------------------------------------------------------------------
(* The HTTP endpoint *)

Answered == http.request # None
Request == http.request[1]
TokenConfigured == http.authToken # << >>

\* the request carries the configured token as its query parameter or as a Bearer
\* Authorization header
PresentsToken ==
    \/ Request.query = Some(http.authToken)
    \/ Request.authorization = Some(<<"Bearer ">> \o http.authToken)

CarriesToken ==
    \/ Request.query = Some(http.authToken)
    \/ /\ Request.query \in {None, Some(<< >>)}
       /\ IsSome(Request.authorization)
       /\ \/ /\ Request.authorization[1] = http.authToken
             /\ \A i \in 1..Len(http.authToken) : http.authToken[i] # "Bearer "
          \/ \E k \in 0..Len(http.authToken) :
                /\ Request.authorization[1] =
                      SubSeq(http.authToken, 1, k) \o <<"Bearer ">>
                          \o SubSeq(http.authToken, k + 1, Len(http.authToken))
                /\ \A i \in 1..k : http.authToken[i] # "Bearer "

====
